---- MODULE Spec2Model ----
(***************************************************************************)
(* A model of the recognition pipeline of AI-Formula-Scanner               *)
(* (src-tauri/src): the retrying transport of llm_api.rs, the prompt       *)
(* migration of data_models.rs / fs_manager.rs, the three-stage           *)
(* orchestration of main.rs and the history cache of main.rs.              *)
(*                                                                         *)
(* Text is modelled as a sequence of words; a substring test               *)
(* (str::contains) is a contiguous-subsequence test on words, and          *)
(* to_lowercase is applied word by word.                                   *)
(***************************************************************************)
EXTENDS Integers, Sequences, FiniteSets, TLC

VARIABLES
    max_retries,   \* LlmConfig.max_retries of the shared ApiClient
    call,          \* call[c]: one running send_request_with_retry invocation
    configFile,    \* contents of config.json
    rec,           \* rec[r]: one invocation of a recognize_from_* command
    events,        \* the "recognition_progress" events emitted so far, in order
    historyFile,   \* contents of history.json (head first)
    pictures,      \* files present in the pictures directory
    historyMtime,  \* modification time of history.json, 0 while it does not exist
    now,           \* the file system's clock, in units of its time granularity
    cache,         \* HISTORY_CACHE: last_mtime and data
    cmd,           \* cmd[p]: the history command the frontend caller p is running
    journal,       \* the history calls that have returned, in order of return
    eval           \* one call of a function without side effects: fn, arg, out

vars ==
    <<max_retries, call, configFile, rec, events, historyFile, pictures,
      historyMtime, now, cache, cmd, journal, eval>>

retryVars == <<max_retries, call>>
orchVars == <<configFile, rec, events, historyFile, pictures>>
cacheVars == <<historyMtime, now, cache, cmd, journal>>
pureVars == <<eval>>

(***************************************************************************)
(* Bounds of the model.                                                    *)
(***************************************************************************)
MaxRetriesBound == 2

\* the clock stops at MaxTime; at most MaxCalls history commands are made one
\* after the other, at most MaxConcurrentCalls concurrently
MaxTime == 2
MaxCalls == 3
MaxConcurrentCalls == 2

\* the scorer is given coverage counts up to MaxCount and up to MaxIssues
\* issues
MaxCount == 10
MaxIssues == 21

\* the longest run of symbols after the key in the texts given to the latex
\* payload parsers
MaxTail == 5

(***************************************************************************)
(* Option and Result values.                                               *)
(***************************************************************************)
None == <<>>
Some(x) == <<x>>

Ok(v) == [ok |-> TRUE, val |-> v]
Err(e) == [ok |-> FALSE, err |-> e]

(***************************************************************************)
(* Words and text.                                                         *)
(***************************************************************************)
\* char::to_lowercase on the words that occur in the model's messages
LowerWord(w) ==
    CASE w = "API" -> "api"
      [] w = "Bad" -> "bad"
      [] w = "Request" -> "request"
      [] w = "Too" -> "too"
      [] w = "Many" -> "many"
      [] w = "Requests" -> "requests"
      [] w = "Internal" -> "internal"
      [] w = "Server" -> "server"
      [] w = "Error" -> "error"
      [] w = "Gateway" -> "gateway"
      [] w = "Service" -> "service"
      [] w = "Unavailable" -> "unavailable"
      [] w = "Timeout" -> "timeout"
      [] w = "Failed" -> "failed"
      [] w = "Gemini" -> "gemini"
      [] w = "Context" -> "context"
      [] w = "Canceled" -> "canceled"
      [] w = "Status" -> "status"
      [] OTHER -> w

to_lowercase(msg) == [i \in 1..Len(msg) |-> LowerWord(msg[i])]

\* str::contains: pat occurs in msg as a contiguous run
contains(msg, pat) ==
    \E i \in 0..(Len(msg) - Len(pat)) :
        \A j \in 1..Len(pat) : msg[i + j] = pat[j]

(***************************************************************************)
(* llm_api.rs: ApiClient::send_request and send_request_with_retry.        *)
(***************************************************************************)
Calls == {"c1", "c2", "c3"}

Statuses == {200, 400, 408, 429, 499, 500, 502, 503, 504}

\* response bodies the backend may send
Bodies ==
    { <<"{candidates}">>,
      <<"upstream", "Timeout">>,
      <<"context", "canceled">> }

\* what the network does with one request: the send fails, the response
\* arrives but its body cannot be read, or a full response arrives
NetOutcomes ==
    { [kind |-> "send_fail", status |-> 0, body |-> <<>>] }
    \cup { [kind |-> "read_fail", status |-> s, body |-> <<>>] : s \in {200, 503} }
    \cup { [kind |-> "response", status |-> s, body |-> b] : s \in Statuses, b \in Bodies }

\* http::StatusCode as Display: the code and its canonical reason
StatusDisplay(s) ==
    CASE s = 200 -> <<"200", "OK">>
      [] s = 400 -> <<"400", "Bad", "Request">>
      [] s = 408 -> <<"408", "Request", "Timeout">>
      [] s = 429 -> <<"429", "Too", "Many", "Requests">>
      [] s = 499 -> <<"499", "<unknown", "status", "code>">>
      [] s = 500 -> <<"500", "Internal", "Server", "Error">>
      [] s = 502 -> <<"502", "Bad", "Gateway">>
      [] s = 503 -> <<"503", "Service", "Unavailable">>
      [] s = 504 -> <<"504", "Gateway", "Timeout">>

\* StatusCode::is_success
is_success(s) == s >= 200 /\ s <= 299

\* the Display text of the error anyhow builds: with .context(..) only the
\* outermost context is shown by to_string()
SendFailedMsg == <<"Failed", "to", "send", "request", "to", "Gemini", "API">>
ReadFailedMsg == <<"Failed", "to", "read", "response", "text">>
HttpFailedMsg(s, body) ==
    <<"API", "request", "failed", "with", "status">> \o StatusDisplay(s) \o <<":">> \o body

send_request(o) ==
    IF o.kind = "send_fail" THEN Err(SendFailedMsg)
    ELSE IF o.kind = "read_fail" THEN Err(ReadFailedMsg)
    ELSE IF ~is_success(o.status) THEN Err(HttpFailedMsg(o.status, o.body))
    ELSE Ok(o.body)

is_retryable_http(msg) ==
    \/ contains(msg, <<"status", "429">>)
    \/ contains(msg, <<"status", "500">>)
    \/ contains(msg, <<"status", "502">>)
    \/ contains(msg, <<"status", "503">>)
    \/ contains(msg, <<"status", "504">>)

is_retryable_transport(msg) ==
    \/ contains(msg, <<"Failed", "to", "send", "request">>)
    \/ contains(to_lowercase(msg), <<"timeout">>)
    \/ contains(to_lowercase(msg), <<"timed", "out">>)
    \/ contains(to_lowercase(msg), <<"connection", "reset">>)
    \/ contains(to_lowercase(msg), <<"temporarily", "unavailable">>)

is_context_canceled(msg) ==
    \/ contains(to_lowercase(msg), <<"context", "canceled">>)
    \/ contains(msg, <<"status", "499">>)

\* mutant: the cancellation check is left out
should_retry_any(msg) == is_retryable_http(msg) \/ is_retryable_transport(msg)

should_retry(msg) ==
    (is_retryable_http(msg) \/ is_retryable_transport(msg)) /\ ~is_context_canceled(msg)

\* mutant: one retry more than configured
retry_allowed_once_more(msg, attempts) == should_retry(msg) /\ attempts <= max_retries

\* mutant: the attempt counter is shared by the calls of the client
retry_allowed_shared(msg, attempts) ==
    should_retry(msg) /\ call["c1"].attempts + call["c2"].attempts < max_retries

\* the guard of the retry branch
retry_allowed(msg, attempts) == should_retry(msg) /\ attempts < max_retries

\* mutant: the exponent counts from 0
backoff_delay_ms_zero_based(n) == (2 ^ (n - 1)) * 1000 + ((n * 137) % 1000)

\* Duration::from_secs(2^n) + Duration::from_millis((n * 137) % 1000), in ms
backoff_delay_ms(n) == (2 ^ n) * 1000 + ((n * 137) % 1000)

\* mutant: the error of the first attempt is returned
give_up_first(seen, e) == Err(send_request(seen[1]).err)

\* return Err(e): the error of the attempt just made, seen being the outcomes
\* of the attempts made so far
give_up(seen, e) == Err(e)

IdleCall ==
    [pc |-> "idle", attempts |-> 0, sent |-> 0, outcomes |-> <<>>,
     delays |-> <<>>, result |-> None]

\* entry of send_request_with_retry: attempts = 0 and the first request goes out
retry_begin(c) ==
    /\ call[c].pc = "idle"
    /\ call' = [call EXCEPT ![c] = [@ EXCEPT !.pc = "sending", !.attempts = 0, !.sent = 1]]
    /\ UNCHANGED <<max_retries, orchVars, cacheVars, pureVars>>

\* one pass of the loop body: the pending send_request completes with o
retry_attempt(c, o) ==
    /\ call[c].pc = "sending"
    /\ LET r == send_request(o)
           cur == call[c]
       IN IF r.ok
          THEN call' = [call EXCEPT ![c] =
                   [cur EXCEPT !.pc = "done", !.outcomes = Append(cur.outcomes, o), !.result = Some(r)]]
          ELSE IF retry_allowed(r.err, cur.attempts)
          THEN call' = [call EXCEPT ![c] =
                   [cur EXCEPT !.pc = "sleeping", !.outcomes = Append(cur.outcomes, o),
                               !.attempts = cur.attempts + 1,
                               !.delays = Append(cur.delays, backoff_delay_ms(cur.attempts + 1))]]
          ELSE call' = [call EXCEPT ![c] =
                   [cur EXCEPT !.pc = "done", !.outcomes = Append(cur.outcomes, o),
                               !.result = Some(give_up(Append(cur.outcomes, o), r.err))]]
    /\ UNCHANGED <<max_retries, orchVars, cacheVars, pureVars>>

\* the backoff sleep ends and the loop sends the next request
retry_wake(c) ==
    /\ call[c].pc = "sleeping"
    /\ call' = [call EXCEPT ![c] = [@ EXCEPT !.pc = "sending", !.sent = @ + 1]]
    /\ UNCHANGED <<max_retries, orchVars, cacheVars, pureVars>>


(***************************************************************************)
(* prompts.rs and data_models.rs: prompt texts, Config, migrate_prompts.   *)
(***************************************************************************)
IsWhitespace(w) == w \in {" ", "<2NL>"}

\* str::is_empty
is_empty(t) == Len(t) = 0

\* str::trim().is_empty(): nothing but whitespace
trim_is_empty(t) == \A i \in 1..Len(t) : IsWhitespace(t[i])

\* PromptManager::get_base_prompt
get_base_prompt(ptype) ==
    CASE ptype = "LaTeX" -> <<"base-latex-prompt">>
      [] ptype = "Analysis" -> <<"base-analysis-prompt">>
      [] ptype = "Verification" -> <<"base-verification-prompt">>

\* PromptManager::get_language_constraint_for
get_language_constraint_for(ptype, language) ==
    IF language = "zh-CN"
    THEN <<"Important:", "Use", "Simplified", "Chinese", ptype>>
    ELSE <<"Important:", "Use", "English", ptype>>

\* prompts::format_rule_for_latex: never empty, whatever the format
format_rule_for_latex(default_format) ==
    <<"<2NL>", "Formatting", "rule:", default_format, "IMPORTANT:", "valid", "JSON">>

PROMPTS_VERSION_CURRENT == 3

current_prompts_version == PROMPTS_VERSION_CURRENT

default_prompts_tuple ==
    [latex |-> get_base_prompt("LaTeX"),
     analysis |-> get_base_prompt("Analysis"),
     verification |-> get_base_prompt("Verification")]

\* Config::default
DefaultConfig ==
    [custom_prompt |-> <<>>,
     latex_prompt |-> get_base_prompt("LaTeX"),
     analysis_prompt |-> get_base_prompt("Analysis"),
     verification_prompt |-> get_base_prompt("Verification"),
     default_latex_format |-> "double_dollar",
     language |-> "zh-CN",
     default_engine |-> "gemini-2.5-flash",
     prompts_version |-> current_prompts_version]

\* Config::migrate_prompts: the migrated config and the value it returns
migrate_prompts(cfg) ==
    IF cfg.prompts_version < current_prompts_version
    THEN [config |-> [cfg EXCEPT !.latex_prompt = default_prompts_tuple.latex,
                                 !.analysis_prompt = default_prompts_tuple.analysis,
                                 !.verification_prompt = default_prompts_tuple.verification,
                                 !.prompts_version = current_prompts_version],
          changed |-> TRUE]
    ELSE LET c1 == IF trim_is_empty(cfg.latex_prompt)
                   THEN [cfg EXCEPT !.latex_prompt = default_prompts_tuple.latex] ELSE cfg
             c2 == IF trim_is_empty(cfg.analysis_prompt)
                   THEN [c1 EXCEPT !.analysis_prompt = default_prompts_tuple.analysis] ELSE c1
             c3 == IF trim_is_empty(cfg.verification_prompt)
                   THEN [c2 EXCEPT !.verification_prompt = default_prompts_tuple.verification] ELSE c2
         IN [config |-> c3,
             changed |-> \/ trim_is_empty(cfg.latex_prompt)
                         \/ trim_is_empty(cfg.analysis_prompt)
                         \/ trim_is_empty(cfg.verification_prompt)]

(***************************************************************************)
(* fs_manager.rs: config.json.                                             *)
(***************************************************************************)
\* config.json: readable and well-formed ("ok"), absent ("missing"), not
\* deserializable ("corrupt"), or failing to open ("unreadable")
FileOf(cfg) == [state |-> "ok", config |-> cfg]
NoConfigFile(st) == [state |-> st, config |-> DefaultConfig]

\* fs_manager::read_config on file f, the write-back succeeding or not:
\* the Result returned and the file left behind
read_config(f, writeOk) ==
    IF f.state = "ok"
    THEN LET m == migrate_prompts(f.config)
         IN [res |-> Ok(m.config),
             file |-> IF m.changed /\ writeOk THEN FileOf(m.config) ELSE f]
    ELSE IF f.state \in {"corrupt", "missing"}
    THEN [res |-> Ok(DefaultConfig),
          file |-> IF writeOk THEN FileOf(DefaultConfig) ELSE f]
    ELSE [res |-> Err(<<"Failed", "to", "read", "config.json">>), file |-> f]


(***************************************************************************)
(* main.rs: the recognize_from_* commands.                                 *)
(***************************************************************************)
RecIds == {"r1", "r2"}

EntryPoints == {"screenshot", "file", "clipboard", "base64"}

Stages == {"latex", "analysis", "verification"}

\* default_title_for_lang ("zh-title" stands for the Chinese title)
default_title_for_lang(language) ==
    IF language = "zh-CN" THEN "zh-untitled-formula" ELSE "Untitled formula"

\* default_summary_for_lang ("zh-..." stands for the Chinese sentence)
default_summary_for_lang(language) ==
    IF language = "zh-CN" THEN "zh-analysis-unavailable"
    ELSE "Analysis is temporarily unavailable. Please try again."

\* the literal report of a failed verification (a fixed Chinese string)
VerificationFailedReport == "zh-verification-failed"

FailedVerificationResult ==
    [confidence_score |-> 0, verification_report |-> VerificationFailedReport]

\* the three "prompt not set" messages (fixed Chinese strings)
LatexPromptMissing == <<"zh:", "LaTeX", "prompt", "not", "set">>
AnalysisPromptMissing == <<"zh:", "analysis", "prompt", "not", "set">>
VerificationPromptMissing == <<"zh:", "verification", "prompt", "not", "set">>

\* the run-time prompt checks made before the client is used
config_error(cfg) ==
    IF trim_is_empty(cfg.latex_prompt) THEN Some(LatexPromptMissing)
    ELSE IF trim_is_empty(cfg.analysis_prompt) THEN Some(AnalysisPromptMissing)
    ELSE IF trim_is_empty(cfg.verification_prompt) THEN Some(VerificationPromptMissing)
    ELSE None

\* which entry points make the checks: recognize_from_image_base64 does not
checks_prompts(entry) == entry # "base64"

build_latex_prompt(entry, cfg) ==
    IF entry = "base64" /\ is_empty(cfg.latex_prompt)
    THEN cfg.custom_prompt
    ELSE cfg.latex_prompt \o format_rule_for_latex(cfg.default_latex_format)

build_analysis_prompt(entry, cfg) ==
    IF entry = "base64" /\ is_empty(cfg.analysis_prompt)
    THEN cfg.custom_prompt
    ELSE cfg.analysis_prompt \o <<"<2NL>">>
             \o get_language_constraint_for("Analysis", cfg.language)

\* recognize_from_clipboard sends the saved prompt without the language part
build_verification_prompt(entry, cfg) ==
    IF entry = "clipboard"
    THEN cfg.verification_prompt
    ELSE cfg.verification_prompt \o <<"<2NL>">>
             \o get_language_constraint_for("Verification", cfg.language)

determine_prompt_version(cfg) ==
    IF ~is_empty(cfg.latex_prompt) THEN "full"
    ELSE IF ~is_empty(cfg.custom_prompt) THEN "custom"
    ELSE "default"

\* the error each command returns when it cannot obtain its image
ImageError(entry) ==
    CASE entry = "screenshot" -> <<"No", "screens", "found.">>
      [] entry = "file" -> <<"file", "read", "or", "decode", "error">>
      [] entry = "clipboard" -> <<"clipboard", "image", "error">>
      [] entry = "base64" -> <<"Failed", "to", "decode", "base64", "image:">>

base64_image(r) == <<"b64", r>>
created_at(r) == <<"created", r>>

\* a spawned tokio task: not yet created, created, running (its backend call
\* is under way), or finished with the JoinHandle's value
NoTask == [st |-> "none", prompt |-> <<>>, latex |-> None, img |-> <<>>, out |-> None]
Spawned(prompt, latex, img) ==
    [st |-> "spawned", prompt |-> prompt, latex |-> latex, img |-> img, out |-> None]

IdleRec ==
    [pc |-> "idle", entry |-> "", found |-> None, config |-> None,
     task |-> [s \in Stages |-> NoTask],
     latex |-> None, title |-> None, analysis |-> None,
     verification_result |-> None, item |-> None, history |-> None,
     result |-> None, steps |-> <<>>]

Returned(cur, res) == [cur EXCEPT !.pc = "done", !.result = Some(res)]

RecognitionProgressPayload(r, stage, cfg) ==
    [id |-> r, stage |-> stage, latex |-> None, title |-> None, analysis |-> None,
     confidence_score |-> None, created_at |-> None, original_image |-> None,
     model_name |-> Some(cfg.default_engine), verification |-> None,
     prompt_version |-> Some(determine_prompt_version(cfg)),
     verification_report |-> None]

\* mutant: the new event is put in front of the earlier ones
emit_progress_head(log, payload) == <<payload>> \o log

\* mutant: no event for a verification that ended with score 0
emit_progress_unless_zero(log, payload) ==
    IF payload.confidence_score = Some(0) THEN log ELSE Append(log, payload)

\* emit_progress: the payload is delivered after the events emitted before it
emit_progress(log, payload) == Append(log, payload)

\* the command up to its first await: configuration, image, prompt checks,
\* and the two tasks spawned together
recognize_start(r, entry, imageOk, writeOk) ==
    /\ rec[r].pc = "idle"
    /\ LET rc == read_config(configFile, writeOk)
           cur == [rec[r] EXCEPT !.entry = entry, !.found = Some(configFile)]
       IN /\ configFile' = rc.file
          /\ IF ~rc.res.ok
             THEN rec' = [rec EXCEPT ![r] = Returned(cur, Err(rc.res.err))]
             ELSE IF ~imageOk
             THEN rec' = [rec EXCEPT ![r] =
                      Returned([cur EXCEPT !.config = Some(rc.res.val)], Err(ImageError(entry)))]
             ELSE LET cfg == rc.res.val
                      ce == IF checks_prompts(entry) THEN config_error(cfg) ELSE None
                      cur2 == [cur EXCEPT !.config = Some(cfg)]
                  IN IF ce # None
                     THEN rec' = [rec EXCEPT ![r] = Returned(cur2, Err(ce[1]))]
                     ELSE rec' = [rec EXCEPT ![r] =
                              [cur2 EXCEPT
                                 !.pc = "await_latex",
                                 !.steps = <<"spawn_latex", "spawn_analysis">>,
                                 !.task["latex"] =
                                     Spawned(build_latex_prompt(entry, cfg), None, base64_image(r)),
                                 !.task["analysis"] =
                                     Spawned(build_analysis_prompt(entry, cfg), None, base64_image(r))]]
    /\ UNCHANGED <<pureVars, retryVars, cacheVars, events, historyFile, pictures>>


(***************************************************************************)
(* The spawned stage tasks (ApiClient::extract_latex, generate_analysis,   *)
(* get_verification_result_with_image) as the orchestrator sees them.      *)
(***************************************************************************)
JoinErrorMsg == <<"task", "panicked">>

LatexTexts == {"x^2", "a+b"}

BackendAnalysis ==
    [title |-> "Energy",
     analysis |-> [summary |-> "mass-energy", variables |-> <<"E", "m", "c">>,
                   terms |-> <<"mc^2">>, suggestions |-> <<"info">>]]

BackendVerification == [confidence_score |-> 87, verification_report |-> "two symbols differ"]

ParseErrorMsg(stage) == <<"Failed", "to", "parse", stage, "content:", "not-json">>

\* the largest value of the u8 field confidence_score
U8Max == 255

\* the numbers the backend may give as confidence_score in its
\* score-and-report answer
BackendScores == {0, 87, 100, 150, 256}

\* serde_json::from_str::<VerificationResultContent>: a number that is no u8
\* is a parse error, every u8 is taken as it is
parse_verification_content(score) ==
    IF score \in 0..U8Max
    THEN Ok([BackendVerification EXCEPT !.confidence_score = score])
    ELSE Err(ParseErrorMsg("verification"))

\* what a stage call returns: a value, a backend (transport or HTTP status)
\* error, or a parse error
StageResults(stage) ==
    (CASE stage = "latex" -> {Ok(l) : l \in LatexTexts}
       [] stage = "analysis" -> {Ok(BackendAnalysis)}
       [] stage = "verification" -> {r \in {parse_verification_content(n) : n \in BackendScores} : r.ok})
    \cup {Err(SendFailedMsg), Err(HttpFailedMsg(400, <<"{candidates}">>)),
          Err(ParseErrorMsg(stage))}

\* mutant: a failed verification keeps a neutral score instead of 0
verification_task_body_neutral(res) ==
    [vr |-> IF res.ok THEN res.val
            ELSE [confidence_score |-> 50, verification_report |-> VerificationFailedReport],
     verification |-> None]

\* the body of the spawned verification task: unwrap_or, paired with None
verification_task_body(res) ==
    [vr |-> IF res.ok THEN res.val ELSE FailedVerificationResult, verification |-> None]

\* the value a finished task hands to its JoinHandle
task_value(stage, res) ==
    IF stage = "verification" THEN verification_task_body(res) ELSE res

\* the stages of r whose task has already finished
DoneStages(r) == {s \in Stages : rec[r].task[s].st = "done"}

\* the runtime starts a spawned task: its backend request goes out
task_start(r, stage) ==
    /\ rec[r].task[stage].st = "spawned"
    /\ rec' = [rec EXCEPT ![r].task[stage].st = "running"]
    /\ UNCHANGED <<pureVars, retryVars, cacheVars, configFile, events, historyFile, pictures>>

\* a running task ends: its stage call returned res
task_finish(r, stage, res) ==
    /\ rec[r].task[stage].st = "running"
    /\ rec' = [rec EXCEPT ![r].task[stage] =
                  [@ EXCEPT !.st = "done",
                            !.out = Some([joined |-> TRUE, res |-> res,
                                          value |-> task_value(stage, res),
                                          before |-> DoneStages(r)])]]
    /\ UNCHANGED <<pureVars, retryVars, cacheVars, configFile, events, historyFile, pictures>>

\* a task dies (panic): awaiting its JoinHandle yields a JoinError
task_panic(r, stage) ==
    /\ rec[r].task[stage].st = "running"
    /\ rec' = [rec EXCEPT ![r].task[stage] =
                  [@ EXCEPT !.st = "done",
                            !.out = Some([joined |-> FALSE, res |-> Err(JoinErrorMsg),
                                          value |-> Err(JoinErrorMsg),
                                          before |-> DoneStages(r)])]]
    /\ UNCHANGED <<pureVars, retryVars, cacheVars, configFile, events, historyFile, pictures>>

\* mutant: the verification request carries the prompt and the image only
stage_request_prompt_only(t) == [text |-> t.prompt, data |-> t.img]

\* the GeminiRequest a stage call builds for task t: the text part and the
\* inline image data; the verification call appends the latex to its prompt
stage_request(t) ==
    [text |-> IF t.latex = None THEN t.prompt
              ELSE t.prompt \o <<"<2NL>", "LaTeX", "to", "evaluate:">> \o t.latex,
     data |-> t.img]

\* whether the backend request of a stage has been issued
RequestIssued(r, stage) == rec[r].task[stage].st \in {"running", "done"}

(***************************************************************************)
(* The command after its first await.                                      *)
(***************************************************************************)
\* mutant: every extraction error is wrapped like a JoinError
latex_error_wrapped(out) == <<"LaTeX", "task", "failed:">> \o out.res.err

\* match latex_task.await: the error returned when extraction did not succeed
latex_error(out) ==
    IF out.joined THEN out.res.err
    ELSE <<"LaTeX", "task", "failed:">> \o out.res.err

\* mutant: the default is used for a failed task only, a stage error keeps
\* the English title and an empty summary
analysis_or_default_join_only(out, language) ==
    IF out.joined /\ out.res.ok THEN out.res.val
    ELSE IF out.joined
    THEN [title |-> "Untitled formula",
          analysis |-> [summary |-> "", variables |-> <<>>, terms |-> <<>>,
                        suggestions |-> <<>>]]
    ELSE [title |-> default_title_for_lang(language),
          analysis |-> [summary |-> default_summary_for_lang(language),
                        variables |-> <<>>, terms |-> <<>>, suggestions |-> <<>>]]

\* match analysis_task.await: the stage's value, or the localized default
analysis_or_default(out, language) ==
    IF out.joined /\ out.res.ok THEN out.res.val
    ELSE [title |-> default_title_for_lang(language),
          analysis |-> [summary |-> default_summary_for_lang(language),
                        variables |-> <<>>, terms |-> <<>>, suggestions |-> <<>>]]

\* match verification_task.await: the task's pair, or the failed result
verification_or_default(out) ==
    IF out.joined THEN out.value
    ELSE [vr |-> FailedVerificationResult, verification |-> None]

\* mutant: the verification task is not created before analysis is awaited
after_latex_no_spawn(cur, cfg, latex) ==
    [cur EXCEPT !.pc = "await_analysis",
                !.latex = Some(latex),
                !.steps = Append(@, "await_latex")]

\* the command between latex_task.await and analysis_task.await: the latex is
\* kept and the verification task is spawned with it
after_latex(cur, cfg, latex) ==
    [cur EXCEPT !.pc = "await_analysis",
                !.latex = Some(latex),
                !.task["verification"] =
                    Spawned(build_verification_prompt(cur.entry, cfg), Some(latex),
                            cur.task["latex"].img),
                !.steps = @ \o <<"await_latex", "spawn_verification">>]

\* latex_task.await, the latex event and the spawn of the verification task
recognize_await_latex(r) ==
    /\ rec[r].pc = "await_latex"
    /\ rec[r].task["latex"].st = "done"
    /\ LET cur == rec[r]
           out == cur.task["latex"].out[1]
           cfg == cur.config[1]
       IN IF out.joined /\ out.res.ok
          THEN /\ events' = emit_progress(events,
                      [RecognitionProgressPayload(r, "latex", cfg) EXCEPT
                          !.latex = Some(out.res.val),
                          !.created_at = Some(created_at(r)),
                          !.original_image = Some(<<"data:image/png;base64,">> \o base64_image(r))])
               /\ rec' = [rec EXCEPT ![r] = after_latex(cur, cfg, out.res.val)]
          ELSE /\ rec' = [rec EXCEPT ![r] =
                      Returned([cur EXCEPT !.steps = Append(@, "await_latex")],
                               Err(latex_error(out)))]
               /\ UNCHANGED events
    /\ UNCHANGED <<pureVars, retryVars, cacheVars, configFile, historyFile, pictures>>

\* analysis_task.await and the analysis event
recognize_await_analysis(r) ==
    /\ rec[r].pc = "await_analysis"
    /\ rec[r].task["analysis"].st = "done"
    /\ LET cur == rec[r]
           cfg == cur.config[1]
           v == analysis_or_default(cur.task["analysis"].out[1], cfg.language)
       IN /\ events' = emit_progress(events,
                 [RecognitionProgressPayload(r, "analysis", cfg) EXCEPT
                     !.title = Some(v.title), !.analysis = Some(v.analysis)])
          /\ rec' = [rec EXCEPT ![r] =
                 [cur EXCEPT !.pc = "await_verification",
                             !.title = Some(v.title), !.analysis = Some(v.analysis),
                             !.steps = Append(@, "await_analysis")]]
    /\ UNCHANGED <<pureVars, retryVars, cacheVars, configFile, historyFile, pictures>>


\* mutant: the file is named from the creation timestamp alone
image_stem_date_only(r) == <<"date-of">> \o created_at(r)

\* the stem "<date>_<id>" and the path save_png_to_pictures returns for it
image_stem(r) == <<"date-of">> \o created_at(r) \o <<"_", r>>
image_path(r) == <<"pictures/">> \o image_stem(r) \o <<".png">>

\* how the file operations that end a command go: up to read_history, and
\* write_history
IoOutcomes == {"ok", "img_fail", "hist_read_fail", "hist_write_fail"}
ReadOutcomes == {"ok", "img_fail", "hist_read_fail"}
WriteOutcomes == {"ok", "hist_write_fail"}

\* the entry of journal for a recognition that returned
RecognitionReturn(r, res, written) ==
    [op |-> "recognize", by |-> r, id |-> r, res |-> res, written |-> written]

\* mutant: the record always carries the localized default title
HistoryItem_default_title(r, cur, vv) ==
    [id |-> r,
     latex |-> cur.latex[1],
     title |-> default_title_for_lang(cur.config[1].language),
     analysis |-> cur.analysis[1],
     is_favorite |-> FALSE,
     created_at |-> created_at(r),
     confidence_score |-> vv.vr.confidence_score,
     original_image |-> base64_image(r),
     model_name |-> Some(cur.config[1].default_engine),
     verification |-> IF cur.entry = "file" THEN None ELSE vv.verification,
     verification_report |-> Some(vv.vr.verification_report)]

\* the record assembled from the three stage outputs; recognize_from_file
\* writes verification: None itself
HistoryItem(r, cur, vv) ==
    [id |-> r,
     latex |-> cur.latex[1],
     title |-> cur.title[1],
     analysis |-> cur.analysis[1],
     is_favorite |-> FALSE,
     created_at |-> created_at(r),
     confidence_score |-> vv.vr.confidence_score,
     original_image |-> base64_image(r),
     model_name |-> Some(cur.config[1].default_engine),
     verification |-> IF cur.entry = "file" THEN None ELSE vv.verification,
     verification_report |-> Some(vv.vr.verification_report)]

\* mutant: the record is put behind the records read
insert_at_tail(list, item) == list \o <<item>>

\* history.insert(0, item)
insert_head(list, item) == <<item>> \o list

\* mutant: the result of write_history is dropped
persist_unchecked_write(io, r, item, pics, hist) ==
    IF io = "img_fail"
    THEN [res |-> Err(<<"Failed", "to", "create", "image", "file">>),
          pictures |-> pics, history |-> hist]
    ELSE IF io = "hist_read_fail"
    THEN [res |-> Err(<<"Failed", "to", "read", "history.json">>),
          pictures |-> pics \cup {image_path(r)}, history |-> hist]
    ELSE [res |-> Ok(item),
          pictures |-> pics \cup {image_path(r)},
          history |-> IF io = "hist_write_fail" THEN hist ELSE insert_head(hist, item)]

\* save_png_to_pictures, read_history, insert(0, ..), write_history and the
\* value returned: each file error is returned with `?`
persist(io, r, item, pics, hist) ==
    IF io = "img_fail"
    THEN [res |-> Err(<<"Failed", "to", "create", "image", "file">>),
          pictures |-> pics, history |-> hist]
    ELSE IF io = "hist_read_fail"
    THEN [res |-> Err(<<"Failed", "to", "read", "history.json">>),
          pictures |-> pics \cup {image_path(r)}, history |-> hist]
    ELSE IF io = "hist_write_fail"
    THEN [res |-> Err(<<"Failed", "to", "create", "or", "truncate", "history.json">>),
          pictures |-> pics \cup {image_path(r)}, history |-> hist]
    ELSE [res |-> Ok(item),
          pictures |-> pics \cup {image_path(r)}, history |-> insert_head(hist, item)]

\* verification_task.await, the confidence event, the image file and
\* read_history: the list read is kept with the new record in front
recognize_await_verification(r, io) ==
    /\ rec[r].pc = "await_verification"
    /\ rec[r].task["verification"].st = "done"
    /\ LET cur == rec[r]
           cfg == cur.config[1]
           vv == verification_or_default(cur.task["verification"].out[1])
           item == [HistoryItem(r, cur, vv) EXCEPT !.original_image = image_path(r)]
           p == persist(io, r, item, pictures, historyFile)
           cur2 == [cur EXCEPT !.verification_result = Some(vv.vr),
                               !.steps = Append(@, "await_verification")]
       IN /\ events' = emit_progress(events,
                 [RecognitionProgressPayload(r, "confidence", cfg) EXCEPT
                     !.confidence_score = Some(vv.vr.confidence_score),
                     !.verification = vv.verification,
                     !.verification_report = Some(vv.vr.verification_report)])
          /\ pictures' = p.pictures
          /\ IF p.res.ok
             THEN /\ rec' = [rec EXCEPT ![r] =
                         [cur2 EXCEPT !.pc = "write_history", !.item = Some(item),
                                      !.history = Some(historyFile)]]
                  /\ journal' = journal
             ELSE /\ rec' = [rec EXCEPT ![r] = Returned(cur2, p.res)]
                  /\ journal' = Append(journal, RecognitionReturn(r, p.res, <<>>))
    /\ UNCHANGED <<pureVars, retryVars, configFile, historyFile, historyMtime, now, cache, cmd>>

\* write_history with the list read before, and the command's return
recognize_write_history(r, io) ==
    /\ rec[r].pc = "write_history"
    /\ LET cur == rec[r]
           p == persist(io, r, cur.item[1], pictures, cur.history[1])
       IN /\ historyFile' = IF io = "ok" THEN p.history ELSE historyFile
          /\ historyMtime' = IF io = "ok" THEN now ELSE historyMtime
          /\ rec' = [rec EXCEPT ![r] = Returned(cur, p.res)]
          /\ journal' = Append(journal, RecognitionReturn(r, p.res, p.history))
    /\ UNCHANGED <<pureVars, retryVars, configFile, events, pictures, now, cache, cmd>>


(***************************************************************************)
(* main.rs: HISTORY_CACHE and the history commands get_history,            *)
(* save_to_history, delete_history_item, update_history_title and          *)
(* update_favorite_status. A command is a sequence of steps: a file        *)
(* operation or a section under the cache's lock.                          *)
(***************************************************************************)
Procs == {"p1", "p2"}

HistoryOps == {"get", "append", "delete", "title", "favorite"}

\* ids the frontend passes: of a record it appends, deletes or updates
ItemIds == {"a", "r1"}

NewTitle == "renamed"

\* a record the frontend passes to save_to_history
FrontendItem(id) ==
    [id |-> id, latex |-> "x^2", title |-> "Energy",
     analysis |-> BackendAnalysis.analysis, is_favorite |-> FALSE,
     created_at |-> <<"created", id>>, confidence_score |-> 87,
     original_image |-> <<"pictures/", id, ".png">>,
     model_name |-> Some("gemini-2.5-flash"), verification |-> None,
     verification_report |-> Some("two symbols differ")]

\* HistoryCacheState as init_cache_if_needed creates it
EmptyCache == [last_mtime |-> None, data |-> <<>>]

\* std::fs::metadata(..).and_then(|m| m.modified()): an error while the file
\* does not exist
modified(mtime) == IF mtime = 0 THEN None ELSE Some(mtime)

\* .unwrap_or(SystemTime::UNIX_EPOCH)
mtime_or_epoch(mtime) == IF modified(mtime) = None THEN 0 ELSE modified(mtime)[1]

\* mutant: the cached list is never taken as current
cache_hit_never(c, mtime) == FALSE

\* if let Some(last) = cache_guard.last_mtime { if last == mtime { .. } }
cache_hit(c, mtime) == c.last_mtime # None /\ c.last_mtime[1] = mtime

\* mutant: a mutation refreshes the cached time and leaves the cached list
cache_after_write_time_only(c, list, mtime) == [c EXCEPT !.last_mtime = modified(mtime)]

\* cache_guard.data = history; cache_guard.last_mtime = metadata(..).modified().ok()
cache_after_write(c, list, mtime) == [last_mtime |-> modified(mtime), data |-> list]

IdsOf(list) == {list[i].id : i \in 1..Len(list)}

\* history.retain(|item| item.id != id)
retain_other(list, id) == SelectSeq(list, LAMBDA item : item.id # id)

\* the first record with the id gets the title / the flag
FirstWith(list, id) == CHOOSE i \in 1..Len(list) : list[i].id = id /\ \A j \in 1..(i - 1) : list[j].id # id

set_title(list, id, title) == [list EXCEPT ![FirstWith(list, id)].title = title]

\* mutant: the flag is set and the title is cleared
set_favorite_clearing_title(list, id, flag) ==
    [list EXCEPT ![FirstWith(list, id)].is_favorite = flag, ![FirstWith(list, id)].title = ""]

set_favorite(list, id, flag) == [list EXCEPT ![FirstWith(list, id)].is_favorite = flag]

NotFoundMsg(id) == <<"Item", "with", "ID", id, "not", "found">>

\* mutant: a delete that removed nothing is written back like any other
mutate_delete_unchecked(op, list, id) ==
    CASE op = "append" -> Ok(insert_head(list, FrontendItem(id)))
      [] op = "delete" -> Ok(retain_other(list, id))
      [] op = "title" -> IF id \in IdsOf(list) THEN Ok(set_title(list, id, NewTitle))
                         ELSE Err(NotFoundMsg(id))
      [] op = "favorite" -> IF id \in IdsOf(list) THEN Ok(set_favorite(list, id, TRUE))
                            ELSE Err(NotFoundMsg(id))

\* what a mutating command makes of the list it read
mutate(op, list, id) ==
    CASE op = "append" -> Ok(insert_head(list, FrontendItem(id)))
      [] op = "delete" -> IF id \in IdsOf(list) THEN Ok(retain_other(list, id))
                          ELSE Err(NotFoundMsg(id))
      [] op = "title" -> IF id \in IdsOf(list) THEN Ok(set_title(list, id, NewTitle))
                         ELSE Err(NotFoundMsg(id))
      [] op = "favorite" -> IF id \in IdsOf(list) THEN Ok(set_favorite(list, id, TRUE))
                            ELSE Err(NotFoundMsg(id))

IdleCmd ==
    [pc |-> "idle", op |-> "", id |-> "", mtime |-> 0, history |-> <<>>,
     began |-> 0, seen |-> EmptyCache, read |-> FALSE]

\* the entry of journal for a command that returned
CommandReturn(p, c, res, written) ==
    [op |-> c.op, by |-> p, id |-> c.id, res |-> res, written |-> written,
     began |-> c.began, mtime |-> c.mtime, seen |-> c.seen, read |-> c.read]

Finish(p, c, res, written) ==
    /\ cmd' = [cmd EXCEPT ![p] = IdleCmd]
    /\ journal' = Append(journal, CommandReturn(p, c, res, written))

\* get_history begins: the modification time of history.json is taken
get_history_stat(p) ==
    /\ cmd[p].pc = "idle"
    /\ cmd' = [cmd EXCEPT ![p] =
                  [IdleCmd EXCEPT !.pc = "check", !.op = "get", !.began = Len(journal),
                                  !.mtime = mtime_or_epoch(historyMtime)]]
    /\ UNCHANGED <<pureVars, retryVars, orchVars, historyMtime, now, cache, journal>>

\* get_history, first section under the lock: the cached list is returned
\* when the cached time is the time just taken
get_history_check(p) ==
    /\ cmd[p].pc = "check"
    /\ LET c == [cmd[p] EXCEPT !.seen = cache]
       IN IF cache_hit(cache, c.mtime)
          THEN Finish(p, c, Ok(cache.data), <<>>)
          ELSE /\ cmd' = [cmd EXCEPT ![p] = [c EXCEPT !.pc = "read"]]
               /\ journal' = journal
    /\ UNCHANGED <<pureVars, retryVars, orchVars, historyMtime, now, cache>>

\* get_history: read_history
get_history_read(p, readOk) ==
    /\ cmd[p].pc = "read" /\ cmd[p].op = "get"
    /\ LET c == [cmd[p] EXCEPT !.read = TRUE]
       IN IF readOk
          THEN /\ cmd' = [cmd EXCEPT ![p] = [c EXCEPT !.pc = "store", !.history = historyFile]]
               /\ journal' = journal
          ELSE Finish(p, c, Err(<<"Failed", "to", "deserialize", "history.json">>), <<>>)
    /\ UNCHANGED <<pureVars, retryVars, orchVars, historyMtime, now, cache>>

\* get_history, second section under the lock: the time taken at the start
\* and the list read are cached, and the list is returned
get_history_store(p) ==
    /\ cmd[p].pc = "store" /\ cmd[p].op = "get"
    /\ cache' = [last_mtime |-> Some(cmd[p].mtime), data |-> cmd[p].history]
    /\ Finish(p, cmd[p], Ok(cmd[p].history), <<>>)
    /\ UNCHANGED <<pureVars, retryVars, orchVars, historyMtime, now>>

\* a mutating command begins: read_history and the change made to the list
mutation_read(p, op, id, readOk) ==
    /\ cmd[p].pc = "idle"
    /\ op \in HistoryOps \ {"get"}
    /\ LET c == [IdleCmd EXCEPT !.op = op, !.id = id, !.began = Len(journal), !.read = TRUE]
           m == mutate(op, historyFile, id)
       IN IF ~readOk
          THEN Finish(p, c, Err(<<"Failed", "to", "deserialize", "history.json">>), <<>>)
          ELSE IF ~m.ok
          THEN Finish(p, c, m, <<>>)
          ELSE /\ cmd' = [cmd EXCEPT ![p] = [c EXCEPT !.pc = "write", !.history = m.val]]
               /\ journal' = journal
    /\ UNCHANGED <<pureVars, retryVars, orchVars, historyMtime, now, cache>>

\* a mutating command: write_history
mutation_write(p, writeOk) ==
    /\ cmd[p].pc = "write"
    /\ IF writeOk
       THEN /\ historyFile' = cmd[p].history
            /\ historyMtime' = now
            /\ cmd' = [cmd EXCEPT ![p].pc = "store"]
            /\ journal' = journal
       ELSE /\ Finish(p, cmd[p], Err(<<"Failed", "to", "create", "or", "truncate", "history.json">>), <<>>)
            /\ UNCHANGED <<historyFile, historyMtime>>
    /\ UNCHANGED <<pureVars, retryVars, configFile, rec, events, pictures, now, cache>>

\* a mutating command, its section under the lock: the list written and the
\* file's modification time as it is now are cached
mutation_store(p) ==
    /\ cmd[p].pc = "store" /\ cmd[p].op # "get"
    /\ cache' = cache_after_write(cache, cmd[p].history, historyMtime)
    /\ Finish(p, [cmd[p] EXCEPT !.seen = cache, !.mtime = historyMtime],
              Ok(<<>>), cmd[p].history)
    /\ UNCHANGED <<pureVars, retryVars, orchVars, historyMtime, now>>

\* the file system's clock passes to the next unit of its granularity
tick ==
    /\ now < MaxTime
    /\ now' = now + 1
    /\ UNCHANGED <<pureVars, retryVars, orchVars, historyMtime, cache, cmd, journal>>

(***************************************************************************)
(* main.rs: compute_verification_result_from_struct. The score is computed *)
(* in f32: a u32 count below 2^24 is converted exactly, a product or a     *)
(* quotient is rounded to the nearest f32, ties to the even mantissa.      *)
(***************************************************************************)
Min(a, b) == IF a < b THEN a ELSE b

\* the exponent e of a positive integer: 2^e <= n < 2^(e+1)
Log2(n) == CHOOSE e \in 0..30 : n \div (2 ^ e) = 1

\* `n as f32` for 0 <= n < 2^31, and the rounding of an integer product
to_f32(n) ==
    IF n < 2 ^ 24 THEN n
    ELSE LET ulp == 2 ^ (Log2(n) - 23)
             rem == n % ulp
             lo == n - rem
         IN IF 2 * rem < ulp \/ (2 * rem = ulp /\ (lo \div ulp) % 2 = 0) THEN lo ELSE lo + ulp

\* (a / b).round() for f32 integers a >= 0, b > 0 with a / b < 2^22. With
\* k = floor(a / b), the result is k + 1 when the f32 nearest to a / b is at
\* least k + 0.5: k + 0.5 is an f32 with an even mantissa, the f32 below it is
\* one unit in the last place lower, and that unit is 2^-25 for k = 0 and
\* 2^(e - 23) for 2^e <= k; so a / b is rounded up to k + 0.5 from half a unit
\* below it. round() then rounds the half away from zero.
f32_div_round(a, b) ==
    LET k == a \div b
        r == a % b
        units == IF k = 0 THEN 2 ^ 25 ELSE 2 ^ (23 - Log2(k))
    IN IF b - 2 * r <= b \div units THEN k + 1 ELSE k

\* (100.0 * (matched as f32) / (total as f32)).round(), 100.0 when total is 0
percent_score(matched, total) ==
    IF total > 0 THEN f32_div_round(to_f32(100 * to_f32(matched)), to_f32(total)) ELSE 100

\* (0.75 * symbols_score + 0.25 * terms_score).round(): for scores below 2^21
\* the products and the sum are exact in f32, and the half rounds up
combined_score(symbols_score, terms_score) == (3 * symbols_score + terms_score + 2) \div 4

\* combined.clamp(0.0, 100.0) as u8
clamp_u8(x) == IF x > 100 THEN 100 ELSE IF x < 0 THEN 0 ELSE x

\* u8::saturating_sub
saturating_sub(a, b) == IF b > a THEN 0 ELSE a - b

coverage_score(cov) ==
    clamp_u8(combined_score(percent_score(cov.symbols_matched, cov.symbols_total),
                            percent_score(cov.terms_matched, cov.terms_total)))

\* mutant: the deduction for a warning is not capped
heuristic_score_uncapped(status, issues_len) ==
    CASE status = "ok" -> 100
      [] status = "warning" -> saturating_sub(80, issues_len * 2)
      [] OTHER -> saturating_sub(60, Min(issues_len * 5, 50))

\* the score without coverage: match verification.status.as_str()
heuristic_score(status, issues_len) ==
    CASE status = "ok" -> 100
      [] status = "warning" -> saturating_sub(80, Min(issues_len * 2, 20))
      [] OTHER -> saturating_sub(60, Min(issues_len * 5, 50))

\* the fixed texts of the report (Chinese in the source)
ExactMatchReport == "zh-latex-matches-exactly"
LayoutDifferenceReport == "zh-layout-differences-only"
ContentDifferenceReport == "zh-content-differs-check-symbols"
DifferencesHeader == "zh-found-these-differences:"

\* the number of issues the report lists
MaxReportedIssues == 10

\* format!("- [{}] {}", issue.category, issue.message)
issue_line(issue) == <<"- [", issue.category, "] ", issue.message>>

\* format!("(.. {} ..)", verification.issues.len() - 10)
omitted_note(n) == <<"zh-more-issues-omitted", n>>

\* mutant: the note on omitted issues is left out
report_lines_no_note(issues) ==
    [k \in 1..Min(Len(issues), MaxReportedIssues) |-> issue_line(issues[k])]

\* the lines pushed for the issues: the first ten, then the note
report_lines(issues) ==
    [k \in 1..Min(Len(issues), MaxReportedIssues) |-> issue_line(issues[k])]
        \o (IF Len(issues) > MaxReportedIssues
            THEN <<omitted_note(Len(issues) - MaxReportedIssues)>> ELSE <<>>)

\* the report, line by line (the lines are joined with "\n" in the source)
verification_report(verification) ==
    IF verification.status = "ok" /\ verification.issues = <<>>
    THEN <<ExactMatchReport>>
    ELSE LET lines == report_lines(verification.issues)
         IN IF lines = <<>>
            THEN (CASE verification.status = "warning" -> <<LayoutDifferenceReport>>
                    [] OTHER -> <<ContentDifferenceReport>>)
            ELSE <<DifferencesHeader>> \o lines

compute_verification_result_from_struct(verification) ==
    [confidence_score |->
         IF verification.coverage # None THEN coverage_score(verification.coverage[1])
         ELSE heuristic_score(verification.status, Len(verification.issues)),
     verification_report |-> verification_report(verification)]

\* the values of Verification.status: the three the prompt asks for and one
\* the backend may send instead
VerificationStatuses == {"ok", "warning", "error", "OK"}

IssueCategories == <<"missing_term", "symbol_mismatch", "other">>

\* a list of n issues, each different from the others
IssuesOf(n) ==
    [k \in 1..n |-> [category |-> IssueCategories[(k % 3) + 1], message |-> <<"issue", k>>]]

\* coverage counts: every combination of small counts, and the counts of a
\* long formula
Coverages ==
    [symbols_matched : 0..MaxCount, symbols_total : 0..MaxCount,
     terms_matched : 0..MaxCount, terms_total : 0..MaxCount]
    \cup [symbols_matched : {89785}, symbols_total : {131073},
          terms_matched : {0, 1}, terms_total : {0, 1, 2}]

\* the Verification values the scorer is given
Verifications ==
    {[status |-> s, issues |-> IssuesOf(n), coverage |-> None] :
        s \in VerificationStatuses, n \in 0..MaxIssues}
    \cup {[status |-> s, issues |-> IssuesOf(n), coverage |-> Some(c)] :
        s \in {"ok", "error"}, n \in {0, 2}, c \in Coverages}

ScorerFn == "compute_verification_result_from_struct"

\* one call of compute_verification_result_from_struct
compute_verification_result ==
    /\ eval.fn = ScorerFn
    /\ eval.out = None
    /\ eval' = [eval EXCEPT !.out = Some(compute_verification_result_from_struct(eval.arg[1]))]
    /\ UNCHANGED <<retryVars, orchVars, cacheVars>>

(***************************************************************************)
(* llm_api.rs: the payload parsers of the stage calls.  A text is a        *)
(* sequence of symbols: the characters that matter to the parsers (quote,  *)
(* backslash, colon, comma, braces, bracket) and whole words for the rest. *)
(***************************************************************************)
Quote == "\""

Backslash == "\\"

\* the key as try_relaxed_extract_latex and internal_generate_analysis
\* search for it: the word between two quotes
LatexKey == <<Quote, "latex", Quote>>

AnalysisKey == <<Quote, "analysis", Quote>>

\* str::find from a position on: the position of the first occurrence of
\* pat at or after start, 0 when there is none
find_from(text, pat, start) ==
    LET hits == {p \in start..(Len(text) - Len(pat) + 1) :
                    \A j \in 1..Len(pat) : text[p + j - 1] = pat[j]}
    IN IF hits = {} THEN 0 ELSE CHOOSE p \in hits : \A q \in hits : p <= q

\* mutant: a backslash always escapes, also when it is escaped itself
next_escaped_sticky(c, escaped) == c = Backslash

\* the escape flag after reading c
next_escaped(c, escaped) == c = Backslash /\ ~escaped

\* the scan for the end of a JSON string: the position of the first quote at
\* or after i that is not escaped, 0 when the text ends first
RECURSIVE scan_string_end(_, _, _)
scan_string_end(text, i, escaped) ==
    IF i > Len(text) THEN 0
    ELSE IF text[i] = Quote /\ ~escaped THEN i
    ELSE scan_string_end(text, i + 1, next_escaped(text[i], escaped))

\* the characters a backslash may stand before in a JSON string, of those
\* that occur in the texts, and what the pair decodes to
JsonEscapes == {Quote, Backslash, "n"}

unescaped(c) == IF c = "n" THEN "<LF>" ELSE c

\* the content of a JSON string between its quotes, decoded; None when a
\* backslash stands before a character it cannot escape or a quote ends the
\* string before the end of the text
RECURSIVE json_unescape(_)
json_unescape(body) ==
    IF body = <<>> THEN Some(<<>>)
    ELSE IF body[1] = Quote THEN None
    ELSE IF body[1] = Backslash
    THEN IF Len(body) < 2 \/ body[2] \notin JsonEscapes THEN None
         ELSE LET rest == json_unescape(SubSeq(body, 3, Len(body)))
              IN IF rest = None THEN None ELSE Some(<<unescaped(body[2])>> \o rest[1])
    ELSE LET rest == json_unescape(SubSeq(body, 2, Len(body)))
         IN IF rest = None THEN None ELSE Some(<<body[1]>> \o rest[1])

\* serde_json::from_str::<String>: the text must be one quoted string
json_decode_string(s) ==
    IF Len(s) < 2 \/ s[1] # Quote \/ s[Len(s)] # Quote THEN None
    ELSE json_unescape(SubSeq(s, 2, Len(s) - 1))

\* ApiClient::try_relaxed_extract_latex
try_relaxed_extract_latex(clean) ==
    LET key == find_from(clean, LatexKey, 1)
        start == key + Len(LatexKey)
        colon == IF key = 0 THEN 0 ELSE find_from(clean, <<":">>, start)
        qstart == IF colon = 0 THEN 0 ELSE find_from(clean, <<Quote>>, colon + 1)
        qend == IF qstart = 0 THEN 0 ELSE scan_string_end(clean, qstart + 1, FALSE)
    IN IF qend = 0 THEN None ELSE json_decode_string(SubSeq(clean, qstart, qend))

\* the symbols the texts after the key are made of
TailSymbols == {":", Quote, Backslash, "n", "]"}

\* the cleaned texts the latex parsers are given, for one run of symbols: the
\* run after the key, inside braces or not, and the run without the key
LatexPayloads(tail) ==
    {pre \o LatexKey \o tail \o post : pre \in {<<>>, <<"{">>}, post \in {<<>>, <<"}">>}}
    \cup {tail}

RelaxedFn == "try_relaxed_extract_latex"

\* one call of try_relaxed_extract_latex
relaxed_extract_latex ==
    /\ eval.fn = RelaxedFn
    /\ eval.out = None
    /\ eval' = [eval EXCEPT !.out = Some(try_relaxed_extract_latex(eval.arg[1].clean))]
    /\ UNCHANGED <<retryVars, orchVars, cacheVars>>

\* the value words of the texts: numbers, and whole Analysis objects that the
\* Analysis schema takes (to the value given) or refuses (None)
JsonNumbers == [w \in {"87", "150", "256"} |-> CASE w = "87" -> 87 [] w = "150" -> 150 [] w = "256" -> 256]

ParsedAnalysis ==
    [summary |-> <<"mass-energy">>, variables |-> <<"E", "m", "c">>,
     terms |-> <<"mc^2">>, suggestions |-> <<"info">>]

AnalysisObjects ==
    [w \in {"<analysis>", "<analysis-without-summary>"} |->
        IF w = "<analysis>" THEN Some(ParsedAnalysis) ELSE None]

JsonFailed == [ok |-> FALSE, end |-> 0]

\* serde_json reading one value that starts at position i (a string, an
\* object, or a value word) and the members of an object whose first key
\* starts at position i: where the value ends, and what it is
RECURSIVE parse_value(_, _), parse_members(_, _, _)
parse_value(text, i) ==
    IF i > Len(text) THEN JsonFailed
    ELSE IF text[i] = Quote
    THEN LET e == scan_string_end(text, i + 1, FALSE)
             d == IF e = 0 THEN None ELSE json_decode_string(SubSeq(text, i, e))
         IN IF d = None THEN JsonFailed
            ELSE [ok |-> TRUE, end |-> e, kind |-> "string", val |-> d[1]]
    ELSE IF text[i] = "{"
    THEN LET o == IF i < Len(text) /\ text[i + 1] = "}"
                  THEN [ok |-> TRUE, end |-> i + 1, members |-> <<>>]
                  ELSE parse_members(text, i + 1, <<>>)
         IN IF o.ok THEN [ok |-> TRUE, end |-> o.end, kind |-> "object", val |-> o.members]
            ELSE JsonFailed
    ELSE IF text[i] \in DOMAIN JsonNumbers
    THEN [ok |-> TRUE, end |-> i, kind |-> "number", val |-> JsonNumbers[text[i]]]
    ELSE IF text[i] \in DOMAIN AnalysisObjects
    THEN [ok |-> TRUE, end |-> i, kind |-> "analysis", val |-> AnalysisObjects[text[i]]]
    ELSE JsonFailed

parse_members(text, i, acc) ==
    LET k == IF i <= Len(text) /\ text[i] = Quote THEN parse_value(text, i) ELSE JsonFailed
        v == IF k.ok /\ k.end < Len(text) /\ text[k.end + 1] = ":"
             THEN parse_value(text, k.end + 2) ELSE JsonFailed
        members == Append(acc, [key |-> k.val, value |-> v])
    IN IF ~v.ok \/ v.end >= Len(text) THEN JsonFailed
       ELSE IF text[v.end + 1] = "}" THEN [ok |-> TRUE, end |-> v.end + 1, members |-> members]
       ELSE IF text[v.end + 1] = "," THEN parse_members(text, v.end + 2, members)
       ELSE JsonFailed

\* a field of a derived Deserialize struct: the value of the member with this
\* key when the text is one object, exactly one member has the key and its
\* value is of the field's kind; unknown members are skipped
struct_field(text, name, kind) ==
    LET o == parse_value(text, 1)
    IN IF ~o.ok \/ o.kind # "object" \/ o.end # Len(text) THEN None
       ELSE LET at == {m \in DOMAIN o.val : o.val[m].key = <<name>>}
            IN IF Cardinality(at) # 1 THEN None
               ELSE LET v == o.val[CHOOSE m \in at : TRUE].value
                    IN IF v.kind # kind THEN None ELSE Some(v.val)

\* ApiClient::clean_response: the two code fence markers (the opening one with
\* the word json, and the bare one) removed, then trimmed
CodeFences == {"<fence>json", "<fence>"}

RECURSIVE trim(_)
trim(text) ==
    IF text = <<>> THEN text
    ELSE IF IsWhitespace(text[1]) THEN trim(Tail(text))
    ELSE IF IsWhitespace(text[Len(text)]) THEN trim(SubSeq(text, 1, Len(text) - 1))
    ELSE text

clean_response(response) == trim(SelectSeq(response, LAMBDA w : w \notin CodeFences))

\* the text of a backend response: serde_json::from_str::<GeminiResponse>
\* needs the candidates and, in each, the content with its parts; the text is
\* the first part of the first candidate
response_text(stage, body) ==
    IF \/ "candidates" \notin DOMAIN body
       \/ \E c \in DOMAIN body.candidates : "parts" \notin DOMAIN body.candidates[c]
    THEN Err(<<"Failed", "to", "parse", "Gemini", "response", "for">> \o stage)
    ELSE IF body.candidates = <<>> \/ body.candidates[1].parts = <<>>
    THEN Err(<<"Gemini", "returned", "no", "text", "for">> \o stage)
    ELSE Ok(body.candidates[1].parts[1])

\* mutant: the lenient extractor is not tried
latex_payload_strict_only(clean) ==
    LET strict == struct_field(clean, "latex", "string")
    IN IF strict # None THEN Ok(strict[1])
       ELSE Err(<<"Failed", "to", "parse", "latex-only", "content:">> \o clean)

\* internal_extract_latex on the cleaned text: LatexOnlyContent, then the
\* lenient extractor, then the error
latex_payload(clean) ==
    LET strict == struct_field(clean, "latex", "string")
        relaxed == try_relaxed_extract_latex(clean)
    IN IF strict # None THEN Ok(strict[1])
       ELSE IF relaxed # None THEN Ok(relaxed[1])
       ELSE Err(<<"Failed", "to", "parse", "latex-only", "content:">> \o clean)

\* ApiClient::internal_extract_latex, from the response on
internal_extract_latex(body) ==
    LET text == response_text(<<"latex", "extraction">>, body)
    IN IF text.ok THEN latex_payload(clean_response(text.val)) ELSE text

EmptyAnalysis == [summary |-> <<>>, variables |-> <<>>, terms |-> <<>>, suggestions |-> <<>>]

\* mutant: a text with the latex key is always answered by the default
analysis_payload_any_latex(clean) ==
    LET title == struct_field(clean, "title", "string")
        analysis == struct_field(clean, "analysis", "analysis")
    IN IF contains(clean, LatexKey)
       THEN Ok([title |-> <<"Untitled formula">>, analysis |-> EmptyAnalysis])
       ELSE IF title # None /\ analysis # None /\ analysis[1] # None
       THEN Ok([title |-> title[1], analysis |-> analysis[1][1]])
       ELSE Err(<<"Failed", "to", "parse", "analysis", "content:">> \o clean)

\* internal_generate_analysis on the cleaned text: the answer to the wrong
\* stage, then AnalysisOnlyContent
analysis_payload(clean) ==
    LET title == struct_field(clean, "title", "string")
        analysis == struct_field(clean, "analysis", "analysis")
    IN IF contains(clean, LatexKey) /\ ~contains(clean, AnalysisKey)
       THEN Ok([title |-> <<"Untitled formula">>, analysis |-> EmptyAnalysis])
       ELSE IF title # None /\ analysis # None /\ analysis[1] # None
       THEN Ok([title |-> title[1], analysis |-> analysis[1][1]])
       ELSE Err(<<"Failed", "to", "parse", "analysis", "content:">> \o clean)

\* ApiClient::internal_generate_analysis, from the response on
internal_generate_analysis(body) ==
    LET text == response_text(<<"analysis">>, body)
    IN IF text.ok THEN analysis_payload(clean_response(text.val)) ELSE text

\* ApiClient::internal_get_verification_result_with_image, from the response
\* on: VerificationResultContent, whose confidence_score is a u8
internal_get_verification_result_with_image(body) ==
    LET text == response_text(<<"verification", "with", "image">>, body)
        clean == clean_response(text.val)
        score == struct_field(clean, "confidence_score", "number")
        report == struct_field(clean, "verification_report", "string")
    IN IF ~text.ok THEN text
       ELSE IF score # None /\ score[1] \in 0..U8Max /\ report # None
       THEN Ok([confidence_score |-> score[1], verification_report |-> report[1]])
       ELSE Err(<<"Failed", "to", "parse", "verification", "content", "from", "API:">> \o clean)

\* how the texts of the backend are written: a quoted word, a member, an
\* object of members, a text in a code fence, a response with one text
Str(w) == <<Quote, w, Quote>>

Member(k, v) == Str(k) \o <<":">> \o v

RECURSIVE Joined(_)
Joined(ms) ==
    IF ms = <<>> THEN <<>>
    ELSE IF Len(ms) = 1 THEN ms[1]
    ELSE ms[1] \o <<",">> \o Joined(Tail(ms))

Obj(ms) == <<"{">> \o Joined(ms) \o <<"}">>

Fenced(t) == <<"<fence>json", " ">> \o t \o <<" ", "<fence>">>

TextBody(t) == [candidates |-> <<[parts |-> <<t>>, finishReason |-> None]>>]

FinishReasons == {"MAX_TOKENS", "SAFETY"}

\* the responses without a text: no candidates field, no candidate, a first
\* candidate without content, a first candidate without parts
NoTextBodies ==
    {[error |-> "quota"], [candidates |-> <<>>]}
    \cup {[candidates |-> <<[finishReason |-> fr]>>] : fr \in {Some(f) : f \in FinishReasons}}
    \cup {[candidates |-> <<[parts |-> <<>>, finishReason |-> fr]>>] :
             fr \in {None} \cup {Some(f) : f \in FinishReasons}}

\* more texts of the extraction stage: a member in an unknown inner object
\* before the latex member, a member twice, a number, and answers in a code
\* fence
ExtractionTexts ==
    {Obj(<<Member("x", Obj(<<Member("latex", Str("a"))>>)), Member("latex", Str("b"))>>),
     Obj(<<Member("latex", Str("a")), Member("latex", Str("b"))>>),
     Obj(<<Member("latex", <<"87">>)>>),
     Fenced(Obj(<<Member("latex", Str("a"))>>)),
     Fenced(Member("latex", Str("a")) \o <<"]">>),
     Fenced(<<"not", "json">>)}

\* the texts of the analysis stage
AnalysisTexts ==
    LET title == Member("title", Str("Energy"))
        analysis == Member("analysis", <<"<analysis>">>)
        latex == Member("latex", Str("x^2"))
    IN {Obj(<<title, analysis>>), Obj(<<analysis, title>>), Obj(<<latex>>),
        Obj(<<latex, title, analysis>>), Obj(<<title>>), Obj(<<latex, analysis>>),
        Obj(<<latex, title>>), Obj(<<analysis>>), <<"{", "}">>, <<"not", "json">>, <<>>,
        LatexKey \o <<":">>, LatexKey, AnalysisKey, latex \o <<"]">>,
        Obj(<<title, analysis>>) \o <<"]">>,
        Obj(<<title, Member("analysis", <<"<analysis-without-summary>">>)>>),
        Obj(<<Member("title", <<"87">>), analysis>>),
        Obj(<<title, title, analysis>>),
        Obj(<<Member("latex", Str("analysis"))>>),
        Obj(<<Member("title", Str("latex"))>>),
        Fenced(Obj(<<title, analysis>>)), Fenced(Obj(<<latex>>)), Fenced(<<"not", "json">>)}

\* the texts of the verification stage
VerificationTexts ==
    LET report == Member("verification_report", Str("two symbols differ"))
    IN {Obj(<<Member("confidence_score", <<n>>), report>>) : n \in DOMAIN JsonNumbers}
       \cup {Obj(<<Member("confidence_score", <<"87">>)>>), Obj(<<report>>),
             Obj(<<Member("latex", Str("a"))>>), Member("latex", Str("a")) \o <<"]">>,
             Obj(<<Member("confidence_score", Str("87")), report>>),
             Fenced(Obj(<<Member("confidence_score", <<"87">>), report>>)),
             <<"not", "json">>}

ExtractFn == "internal_extract_latex"

AnalysisFn == "internal_generate_analysis"

VerificationFn == "internal_get_verification_result_with_image"

\* one extraction stage call, from the response on
extract_latex_response ==
    /\ eval.fn = ExtractFn
    /\ eval.out = None
    /\ eval' = [eval EXCEPT !.out = Some(internal_extract_latex(eval.arg[1]))]
    /\ UNCHANGED <<retryVars, orchVars, cacheVars>>

\* one analysis stage call, from the response on
generate_analysis_response ==
    /\ eval.fn = AnalysisFn
    /\ eval.out = None
    /\ eval' = [eval EXCEPT !.out = Some(internal_generate_analysis(eval.arg[1]))]
    /\ UNCHANGED <<retryVars, orchVars, cacheVars>>

\* one verification stage call, from the response on
verification_result_response ==
    /\ eval.fn = VerificationFn
    /\ eval.out = None
    /\ eval' = [eval EXCEPT !.out = Some(internal_get_verification_result_with_image(eval.arg[1]))]
    /\ UNCHANGED <<retryVars, orchVars, cacheVars>>

(***************************************************************************)
(* Initial states and specifications.                                      *)
(***************************************************************************)
UserConfig(lp, ap, vp, cp, lang, ver) ==
    [DefaultConfig EXCEPT !.latex_prompt = lp, !.analysis_prompt = ap,
                          !.verification_prompt = vp, !.custom_prompt = cp,
                          !.language = lang, !.prompts_version = ver]

\* prompt texts a user may have saved: none, blanks only, or some text
SavedPrompts(stage) == { <<>>, <<" ">>, <<"my", stage, "prompt">> }

\* every config.json the model starts from
ConfigFiles ==
    { FileOf(UserConfig(lp, ap, vp, cp, lang, ver)) :
        lp \in SavedPrompts("latex"), ap \in SavedPrompts("analysis"),
        vp \in SavedPrompts("verification"), cp \in { <<>>, <<"my", "custom", "prompt">> },
        lang \in {"zh-CN", "en"},
        ver \in {current_prompts_version - 1, current_prompts_version} }
    \cup { NoConfigFile(st) : st \in {"missing", "corrupt", "unreadable"} }

\* configurations whose prompts are all set
UsableConfigFiles ==
    { f \in ConfigFiles : f.state = "ok"
        /\ f.config.prompts_version = current_prompts_version
        /\ f.config.custom_prompt = <<>>
        /\ config_error(f.config) = None }

\* the calls of cs are to come on one client, the others are never made
InitRetry(cs) ==
    /\ max_retries \in 0..MaxRetriesBound
    /\ call = [c \in Calls |-> IF c \in cs THEN IdleCall ELSE [IdleCall EXCEPT !.pc = "off"]]

NoRetry ==
    /\ max_retries = 0
    /\ call = [c \in Calls |-> [IdleCall EXCEPT !.pc = "off"]]

\* the callers of ps are to make history commands, the others never do
Cmds(ps) == [p \in Procs |-> IF p \in ps THEN IdleCmd ELSE [IdleCmd EXCEPT !.pc = "off"]]

\* application start: no event, no history.json, nothing cached
InitOrch ==
    /\ events = <<>>
    /\ historyFile = <<>>
    /\ pictures = {}
    /\ historyMtime = 0
    /\ now = 1
    /\ cache = EmptyCache
    /\ journal = <<>>

\* no function is under evaluation
NoEval == [fn |-> "", arg |-> None, out |-> None]

\* the recognitions of rs are to come, the others never start
Recs(rs) == [r \in RecIds |-> IF r \in rs THEN IdleRec ELSE [IdleRec EXCEPT !.pc = "off"]]

\* the steps of the recognitions, every input drawn from its full set
RecNext ==
    \/ \E r \in RecIds, e \in EntryPoints, imageOk \in BOOLEAN, writeOk \in BOOLEAN :
           recognize_start(r, e, imageOk, writeOk)
    \/ \E r \in RecIds, s \in Stages : task_start(r, s)
    \/ \E r \in RecIds, s \in Stages : \E res \in StageResults(s) : task_finish(r, s, res)
    \/ \E r \in RecIds, s \in Stages : task_panic(r, s)
    \/ \E r \in RecIds : recognize_await_latex(r)
    \/ \E r \in RecIds : recognize_await_analysis(r)
    \/ \E r \in RecIds, io \in ReadOutcomes : recognize_await_verification(r, io)
    \/ \E r \in RecIds, io \in WriteOutcomes : recognize_write_history(r, io)

\* the same steps with one success and one failure per stage and no file error
SmallStageResults(s) ==
    {res \in StageResults(s) :
        res.ok => /\ s = "latex" => res.val = "x^2"
                  /\ s = "verification" => res.val = BackendVerification}
    \ {Err(HttpFailedMsg(400, <<"{candidates}">>)), Err(ParseErrorMsg(s))}

SmallNext ==
    \/ \E r \in RecIds, e \in EntryPoints, writeOk \in BOOLEAN :
           recognize_start(r, e, TRUE, writeOk)
    \/ \E r \in RecIds, s \in Stages : task_start(r, s)
    \/ \E r \in RecIds, s \in Stages : \E res \in SmallStageResults(s) : task_finish(r, s, res)
    \/ \E r \in RecIds : recognize_await_latex(r)
    \/ \E r \in RecIds : recognize_await_analysis(r)
    \/ \E r \in RecIds : recognize_await_verification(r, "ok")
    \/ \E r \in RecIds : recognize_write_history(r, "ok")

RetryNext ==
    \/ \E c \in Calls : retry_begin(c)
    \/ \E c \in Calls, o \in NetOutcomes : retry_attempt(c, o)
    \/ \E c \in Calls : retry_wake(c)

\* a send failure, a retryable and a fatal status, and a success
SmallNetOutcomes ==
    {o \in NetOutcomes :
        \/ o.kind = "send_fail"
        \/ o.kind = "response" /\ o.status \in {200, 400, 503} /\ o.body = <<"{candidates}">>}

RetryPairNext ==
    \/ \E c \in Calls : retry_begin(c)
    \/ \E c \in Calls, o \in SmallNetOutcomes : retry_attempt(c, o)
    \/ \E c \in Calls : retry_wake(c)

\* one recognition on a usable configuration, every stage and file outcome
Init ==
    /\ InitOrch
    /\ eval = NoEval
    /\ cmd = Cmds({})
    /\ NoRetry
    /\ configFile \in UsableConfigFiles
    /\ rec = Recs({"r1"})

Spec == Init /\ [][RecNext]_vars

\* two concurrent recognitions on a usable configuration
InitConc ==
    /\ InitOrch
    /\ eval = NoEval
    /\ cmd = Cmds({})
    /\ NoRetry
    /\ configFile \in {f \in UsableConfigFiles : f.config.language = "en"}
    /\ rec = Recs(RecIds)

SpecConc == InitConc /\ [][SmallNext]_vars

\* one recognition on every config.json
InitConfig ==
    /\ InitOrch
    /\ eval = NoEval
    /\ cmd = Cmds({})
    /\ NoRetry
    /\ configFile \in ConfigFiles
    /\ rec = Recs({"r1"})

SpecConfig == InitConfig /\ [][SmallNext]_vars

\* one call of send_request_with_retry, every network outcome at every attempt
InitClient ==
    /\ InitOrch
    /\ eval = NoEval
    /\ cmd = Cmds({})
    /\ InitRetry({"c1"})
    /\ configFile = FileOf(DefaultConfig)
    /\ rec = Recs({})

SpecRetry == InitClient /\ [][RetryNext]_vars

\* two concurrent calls of send_request_with_retry on one shared client
InitClientPair ==
    /\ InitOrch
    /\ eval = NoEval
    /\ cmd = Cmds({})
    /\ InitRetry({"c1", "c2"})
    /\ configFile = FileOf(DefaultConfig)
    /\ rec = Recs({})

SpecRetryPair == InitClientPair /\ [][RetryPairNext]_vars

\* the send_request_with_retry call that the task of each stage makes
StageCall == [s \in Stages |-> CASE s = "latex" -> "c1" [] s = "analysis" -> "c2"
                                  [] s = "verification" -> "c3"]

\* what a stage call returns once its send_request_with_retry has returned:
\* the error unchanged, or what the payload parser makes of the response
StageOutcomes(s, result) ==
    IF result.ok THEN {res \in SmallStageResults(s) : res.ok} \cup {Err(ParseErrorMsg(s))}
    ELSE {result}

\* a retryable and a fatal status, and a success
PipelineNetOutcomes == {o \in SmallNetOutcomes : o.kind = "response"}

\* the steps of one recognition whose stage tasks go through
\* send_request_with_retry: a task that runs makes its call, and ends with
\* what the call returned
PipelineNext ==
    \/ \E r \in RecIds : recognize_start(r, "screenshot", TRUE, TRUE)
    \/ \E r \in RecIds, s \in Stages : task_start(r, s)
    \/ \E r \in RecIds, s \in Stages :
           rec[r].task[s].st = "running" /\ retry_begin(StageCall[s])
    \/ \E r \in RecIds, s \in Stages, o \in PipelineNetOutcomes :
           rec[r].task[s].st = "running" /\ retry_attempt(StageCall[s], o)
    \/ \E r \in RecIds, s \in Stages :
           rec[r].task[s].st = "running" /\ retry_wake(StageCall[s])
    \/ \E r \in RecIds, s \in Stages :
           /\ call[StageCall[s]].pc = "done"
           /\ \E res \in StageOutcomes(s, call[StageCall[s]].result[1]) : task_finish(r, s, res)
    \/ \E r \in RecIds, s \in Stages : task_panic(r, s)
    \/ \E r \in RecIds : recognize_await_latex(r)
    \/ \E r \in RecIds : recognize_await_analysis(r)
    \/ \E r \in RecIds, io \in ReadOutcomes : recognize_await_verification(r, io)
    \/ \E r \in RecIds, io \in WriteOutcomes : recognize_write_history(r, io)

\* one recognition on the default configuration, its three stage calls on one
\* client with any max_retries up to the bound
InitPipeline ==
    /\ InitOrch
    /\ eval = NoEval
    /\ cmd = Cmds({})
    /\ InitRetry(Calls)
    /\ configFile = FileOf(DefaultConfig)
    /\ rec = Recs({"r1"})

SpecPipeline == InitPipeline /\ [][PipelineNext]_vars

\* every request completes or times out, every sleep ends and every task and
\* the command are run: a step that can be taken is taken
SpecPipelineFair == SpecPipeline /\ WF_vars(PipelineNext)

\* a call is in progress
RecBusy(r) == rec[r].pc \notin {"idle", "done", "off"}
CmdBusy(p) == cmd[p].pc \notin {"idle", "off"}

\* fewer than n history commands have been begun
CanCall(n) ==
    Cardinality({i \in 1..Len(journal) : journal[i].op # "recognize"})
        + Cardinality({p \in Procs : CmdBusy(p)}) < n

\* one success per stage
QuickStageResults(s) == {res \in SmallStageResults(s) : res.ok}

\* the steps of a recognition by screenshot whose stages succeed
QuickRecNext ==
    \/ \E r \in RecIds : recognize_start(r, "screenshot", TRUE, TRUE)
    \/ \E r \in RecIds, st \in Stages : task_start(r, st)
    \/ \E r \in RecIds, st \in Stages : \E res \in QuickStageResults(st) : task_finish(r, st, res)
    \/ \E r \in RecIds : recognize_await_latex(r)
    \/ \E r \in RecIds : recognize_await_analysis(r)
    \/ \E r \in RecIds : recognize_await_verification(r, "ok")
    \/ \E r \in RecIds, io \in WriteOutcomes : recognize_write_history(r, io)

\* the steps of at most n history commands on the ids of ids, the read of
\* get_history succeeding or not as readOks allows and the file operations
\* of the mutating commands as oks allows
CommandNext(n, ids, readOks, oks) ==
    \/ CanCall(n) /\ \E p \in Procs : get_history_stat(p)
    \/ \E p \in Procs : get_history_check(p)
    \/ \E p \in Procs, readOk \in readOks : get_history_read(p, readOk)
    \/ \E p \in Procs : get_history_store(p)
    \/ CanCall(n) /\ \E p \in Procs, op \in HistoryOps \ {"get"}, id \in ids, readOk \in oks :
           mutation_read(p, op, id, readOk)
    \/ \E p \in Procs, writeOk \in oks : mutation_write(p, writeOk)
    \/ \E p \in Procs : mutation_store(p)

\* history commands and recognitions made one at a time: a call begins when
\* no other call is in progress. The read of get_history may fail; the file
\* operations of the mutating commands succeed (their failures are among
\* the steps of ConcNext)
SeqNext ==
    \/ (\A r \in RecIds : ~RecBusy(r)) /\ CommandNext(MaxCalls, {"a"}, BOOLEAN, {TRUE})
    \/ (\A p \in Procs : ~CmdBusy(p)) /\ QuickRecNext
    \/ tick

InitHistorySeq ==
    /\ InitOrch
    /\ eval = NoEval
    /\ NoRetry
    /\ configFile = FileOf(DefaultConfig)
    /\ rec = Recs({"r1"})
    /\ cmd = Cmds({"p1"})

SpecHistorySeq == InitHistorySeq /\ [][SeqNext]_vars

\* the recognition has its three stage results: what is left is the
\* confidence event and the files
Completing(r) ==
    \/ rec[r].pc \in {"write_history", "done"}
    \/ rec[r].pc = "await_verification" /\ rec[r].task["verification"].st = "done"

\* two frontend callers and one recognition, their steps interleaved; the
\* commands come while the recognition completes or after it
ConcNext ==
    \/ Completing("r1") /\ CommandNext(MaxConcurrentCalls, ItemIds, BOOLEAN, BOOLEAN)
    \/ QuickRecNext
    \/ tick

InitHistory ==
    /\ InitOrch
    /\ eval = NoEval
    /\ NoRetry
    /\ configFile = FileOf(DefaultConfig)
    /\ rec = Recs({"r1"})
    /\ cmd = Cmds(Procs)

SpecHistory == InitHistory /\ [][ConcNext]_vars

\* the scorer called once, on any of the Verification values
InitScorer ==
    /\ InitOrch
    /\ NoRetry
    /\ configFile = FileOf(DefaultConfig)
    /\ rec = Recs({})
    /\ cmd = Cmds({})
    /\ eval \in {[fn |-> ScorerFn, arg |-> Some(v), out |-> None] : v \in Verifications}

SpecScorer == InitScorer /\ [][compute_verification_result]_vars

\* the payload parsers called once, on any of their texts
InitParse ==
    /\ InitOrch
    /\ NoRetry
    /\ configFile = FileOf(DefaultConfig)
    /\ rec = Recs({})
    /\ cmd = Cmds({})
    /\ \/ \E k \in 0..MaxTail : \E tail \in [1..k -> TailSymbols] :
              \E t \in LatexPayloads(tail) :
                  eval \in {[fn |-> RelaxedFn, arg |-> Some([clean |-> t]), out |-> None],
                            [fn |-> ExtractFn, arg |-> Some(TextBody(t)), out |-> None]}
       \/ eval \in {[fn |-> ExtractFn, arg |-> Some(TextBody(t)), out |-> None] :
                        t \in ExtractionTexts}
               \cup {[fn |-> AnalysisFn, arg |-> Some(TextBody(t)), out |-> None] :
                        t \in AnalysisTexts}
               \cup {[fn |-> VerificationFn, arg |-> Some(TextBody(t)), out |-> None] :
                        t \in VerificationTexts}
               \cup {[fn |-> f, arg |-> Some(b), out |-> None] :
                        f \in {ExtractFn, AnalysisFn, VerificationFn}, b \in NoTextBodies}

ParseNext ==
    \/ relaxed_extract_latex
    \/ extract_latex_response
    \/ generate_analysis_response
    \/ verification_result_response

SpecParse == InitParse /\ [][ParseNext]_vars

(***************************************************************************)
(* Properties.                                                             *)
(***************************************************************************)
EventsOf(r) == SelectSeq(events, LAMBDA e : e.id = r)

StageSeq(r) == [i \in 1..Len(EventsOf(r)) |-> EventsOf(r)[i].stage]

IsPrefix(a, b) == Len(a) <= Len(b) /\ \A i \in 1..Len(a) : a[i] = b[i]

EventOf(r, stage) == CHOOSE e \in {events[i] : i \in 1..Len(events)} : e.id = r /\ e.stage = stage

HasEvent(r, stage) == \E i \in 1..Len(events) : events[i].id = r /\ events[i].stage = stage

TaskOut(r, stage) == rec[r].task[stage].out[1]

StageDone(r, stage) == rec[r].task[stage].st = "done"

\* the stage's task finished with a value / without one (a stage error or a failed task)
StageSucceeded(r, stage) ==
    StageDone(r, stage) /\ TaskOut(r, stage).joined /\ TaskOut(r, stage).res.ok

StageFailed(r, stage) == StageDone(r, stage) /\ ~StageSucceeded(r, stage)

ReturnedOk(r) == rec[r].pc = "done" /\ rec[r].result[1].ok

ReturnedErr(r) == rec[r].pc = "done" /\ ~rec[r].result[1].ok

\* C1: the progress events of one recognition id appear in the order latex,
\* analysis, confidence, whatever the order in which the stage tasks finish and
\* however the events of a concurrent recognition are interleaved with them.
C1_EventOrder ==
    \A r \in RecIds : IsPrefix(StageSeq(r), <<"latex", "analysis", "confidence">>)

\* C1 witness: r1's analysis task finished before its extraction task, r1
\* returned with its three events emitted, and r2's events lie between them.
C1_Witness ==
    /\ ReturnedOk("r1")
    /\ "analysis" \in TaskOut("r1", "latex").before
    /\ StageSeq("r1") = <<"latex", "analysis", "confidence">>
    /\ Len(events) >= 4
    /\ events[1].id = "r1" /\ events[2].id = "r2" /\ events[3].id = "r1"

\* C2: when the extraction stage fails with a stage error (transport, HTTP
\* status or parse), the command goes no further than awaiting it and returns
\* an error whose message is the extraction error's message, unchanged,
\* whatever the analysis task does.
C2_ExtractionFatal ==
    \A r \in RecIds :
        (StageDone(r, "latex") /\ TaskOut(r, "latex").joined /\ ~TaskOut(r, "latex").res.ok)
        => /\ rec[r].pc \in {"await_latex", "done"}
           /\ rec[r].pc = "done" => rec[r].result = Some(Err(TaskOut(r, "latex").res.err))

\* C2 witness: extraction failed with a parse error, the analysis task
\* succeeded, and the command returned the parse error.
C2_Witness ==
    /\ rec["r1"].pc = "done"
    /\ StageDone("r1", "latex")
    /\ TaskOut("r1", "latex").res = Err(ParseErrorMsg("latex"))
    /\ StageSucceeded("r1", "analysis")
    /\ rec["r1"].result = Some(Err(ParseErrorMsg("latex")))

DegradedTitle(language) ==
    IF language = "zh-CN" THEN "zh-untitled-formula" ELSE "Untitled formula"

DegradedAnalysis(language) ==
    [summary |-> IF language = "zh-CN" THEN "zh-analysis-unavailable"
                 ELSE "Analysis is temporarily unavailable. Please try again.",
     variables |-> <<>>, terms |-> <<>>, suggestions |-> <<>>]

\* C3: when extraction succeeded and the analysis stage failed (stage error or
\* failed task), the analysis event and the returned record carry the default
\* title of the configured language, the localized placeholder summary and
\* empty variable, term and suggestion lists.
C3_AnalysisDegraded ==
    \A r \in RecIds :
        (StageSucceeded(r, "latex") /\ StageFailed(r, "analysis")
            /\ rec[r].pc \in {"await_verification", "write_history", "done"})
        => LET lang == rec[r].config[1].language
           IN /\ HasEvent(r, "analysis")
              /\ EventOf(r, "analysis").title = Some(DegradedTitle(lang))
              /\ EventOf(r, "analysis").analysis = Some(DegradedAnalysis(lang))
              /\ ReturnedOk(r) =>
                    /\ rec[r].result[1].val.title = DegradedTitle(lang)
                    /\ rec[r].result[1].val.analysis = DegradedAnalysis(lang)

\* C3 witness: a zh-CN recognition whose analysis stage returned a parse error
\* has returned its record.
C3_Witness ==
    /\ ReturnedOk("r1")
    /\ rec["r1"].config[1].language = "zh-CN"
    /\ StageDone("r1", "analysis")
    /\ TaskOut("r1", "analysis").res = Err(ParseErrorMsg("analysis"))
    /\ rec["r1"].result[1].val.title = "zh-untitled-formula"

\* C4: when extraction succeeded and the verification stage failed (stage
\* error or failed task), the confidence event and the returned record carry
\* score 0 and the fixed "verification failed" report, and no structured
\* verification.
C4_VerificationDegraded ==
    \A r \in RecIds :
        (StageSucceeded(r, "latex") /\ StageFailed(r, "verification") /\ rec[r].pc = "done")
        => /\ HasEvent(r, "confidence")
           /\ EventOf(r, "confidence").confidence_score = Some(0)
           /\ EventOf(r, "confidence").verification_report = Some("zh-verification-failed")
           /\ EventOf(r, "confidence").verification = None
           /\ ReturnedOk(r) =>
                 /\ rec[r].result[1].val.confidence_score = 0
                 /\ rec[r].result[1].val.verification_report = Some("zh-verification-failed")
                 /\ rec[r].result[1].val.verification = None

\* C4 witness: the verification stage returned a backend error and the
\* command returned its record with score 0.
C4_Witness ==
    /\ ReturnedOk("r1")
    /\ StageDone("r1", "verification")
    /\ TaskOut("r1", "verification").res = Err(SendFailedMsg)
    /\ rec["r1"].result[1].val.confidence_score = 0

InHistory(r) == \E i \in 1..Len(historyFile) : historyFile[i].id = r

FileErrors ==
    { <<"Failed", "to", "create", "image", "file">>,
      <<"Failed", "to", "read", "history.json">>,
      <<"Failed", "to", "create", "or", "truncate", "history.json">> }

ConfiguredPrompt(r, stage) ==
    LET c == rec[r].found[1].config
    IN CASE stage = "latex" -> c.latex_prompt
         [] stage = "analysis" -> c.analysis_prompt
         [] stage = "verification" -> c.verification_prompt

LoadedPrompt(r, stage) ==
    LET c == rec[r].config[1]
    IN CASE stage = "latex" -> c.latex_prompt
         [] stage = "analysis" -> c.analysis_prompt
         [] stage = "verification" -> c.verification_prompt

PromptMissing(stage) ==
    CASE stage = "latex" -> <<"zh:", "LaTeX", "prompt", "not", "set">>
      [] stage = "analysis" -> <<"zh:", "analysis", "prompt", "not", "set">>
      [] stage = "verification" -> <<"zh:", "verification", "prompt", "not", "set">>

\* the command was called with a config.json that holds a configuration
Configured(r) == rec[r].found # None /\ rec[r].found[1].state = "ok"

\* C6: in every entry point, when the configured extraction, analysis or
\* verification prompt is empty, the command returns an error, the message
\* being the one of an empty prompt (one message per prompt), and no backend
\* request is issued for any stage.
C6_EmptyPromptAborts ==
    \A r \in RecIds :
        (Configured(r) /\ \E s \in Stages : is_empty(ConfiguredPrompt(r, s)))
        => /\ \A s \in Stages : ~RequestIssued(r, s)
           /\ ReturnedErr(r)
           /\ \E s \in Stages : /\ is_empty(ConfiguredPrompt(r, s))
                                /\ rec[r].result[1].err = PromptMissing(s)
           /\ \A s, t \in Stages : s # t => PromptMissing(s) # PromptMissing(t)

\* C7: no request is sent for a stage whose configured prompt is empty, no
\* task is created for it, and the prompt of that stage is still empty in the
\* configuration the command works with: nothing was put in its place.
C7_NoStageOnEmptyPrompt ==
    \A r \in RecIds : \A s \in Stages :
        (Configured(r) /\ is_empty(ConfiguredPrompt(r, s)))
        => /\ rec[r].task[s].st = "none"
           /\ ~RequestIssued(r, s)
           /\ rec[r].config # None => is_empty(LoadedPrompt(r, s))

RetryableStatuses == {429, 500, 502, 503, 504}

LastOutcome(c) == call[c].outcomes[Len(call[c].outcomes)]

Attempted(c) == Len(call[c].outcomes) > 0

HttpFailure(o) == o.kind = "response" /\ ~(o.status >= 200 /\ o.status <= 299)

\* the request did not get out, or the response did not get in
TransportFailure(o) == o.kind \in {"send_fail", "read_fail"}

\* status 499, or the text "context canceled" in the error
Cancellation(o) ==
    HttpFailure(o) /\ (o.status = 499 \/ contains(to_lowercase(o.body), <<"context", "canceled">>))

RetryableFailure(o) ==
    /\ TransportFailure(o) \/ (HttpFailure(o) /\ o.status \in RetryableStatuses)
    /\ ~Cancellation(o)

\* C8: a call sends at most max_retries + 1 requests; when it has returned and
\* every attempt failed with a retryable failure (status 429, 500, 502, 503 or
\* 504, or a transport-level failure) it sent exactly max_retries + 1; with
\* max_retries = 0 it sent exactly one.
C8_RequestCount ==
    \A c \in Calls :
        /\ call[c].sent <= max_retries + 1
        /\ (call[c].pc = "done"
              /\ \A i \in 1..Len(call[c].outcomes) : RetryableFailure(call[c].outcomes[i]))
           => call[c].sent = max_retries + 1
        /\ (call[c].pc = "done" /\ max_retries = 0) => call[c].sent = 1

\* C9: a failed attempt that indicates cancellation (status 499, or "context
\* canceled" in the error) ends the call: it is not followed by a sleep or by
\* another request, also when its status is a retryable one or its text
\* matches a transport pattern.
C9_CancellationNotRetried ==
    \A c \in Calls :
        (Attempted(c) /\ Cancellation(LastOutcome(c)))
        => /\ call[c].pc = "done"
           /\ call[c].sent = Len(call[c].outcomes)
           /\ call[c].result = Some(send_request(LastOutcome(c)))

\* C9 witness: with two retries allowed, the first attempt got status 503 with
\* "context canceled" in the body and the call returned after that one request.
C9_Witness ==
    /\ max_retries = 2
    /\ call["c1"].pc = "done"
    /\ call["c1"].sent = 1
    /\ call["c1"].outcomes =
          <<[kind |-> "response", status |-> 503, body |-> <<"context", "canceled">>]>>

\* C10: a response with a non-2xx status outside {429, 500, 502, 503, 504}
\* ends the call with that attempt, whatever its body: it is not followed by a
\* sleep or by another request.
C10_FatalStatusNotRetried ==
    \A c \in Calls :
        (Attempted(c) /\ HttpFailure(LastOutcome(c))
            /\ LastOutcome(c).status \notin RetryableStatuses)
        => /\ call[c].pc = "done"
           /\ call[c].sent = Len(call[c].outcomes)


\* C11: the value send-with-retry returns is the result of the last attempt
\* made: on giving up, that attempt's error unmodified; on success, that
\* attempt's response text, with no request sent after it.
C11_LastResultReturned ==
    \A c \in Calls :
        call[c].pc = "done"
        => /\ call[c].result = Some(send_request(LastOutcome(c)))
           /\ call[c].sent = Len(call[c].outcomes)
           /\ \A i \in 1..(Len(call[c].outcomes) - 1) : ~send_request(call[c].outcomes[i]).ok

\* C11 witness: three attempts failed with three different errors and the
\* call returned the third one.
C11_Witness ==
    /\ call["c1"].pc = "done"
    /\ Len(call["c1"].outcomes) = 3
    /\ call["c1"].outcomes[1].kind = "send_fail"
    /\ call["c1"].outcomes[2].kind = "response" /\ call["c1"].outcomes[2].status = 503
    /\ call["c1"].outcomes[3].kind = "response" /\ call["c1"].outcomes[3].status = 500
    /\ call["c1"].result =
          Some([ok |-> FALSE,
                err |-> <<"API", "request", "failed", "with", "status", "500", "Internal",
                          "Server", "Error", ":", "{candidates}">>])

ExpectedDelayMs(n) == (2 ^ n) * 1000 + ((n * 137) % 1000)

OrchestratorOrder ==
    <<"spawn_latex", "spawn_analysis", "await_latex", "spawn_verification",
      "await_analysis", "await_verification">>

Launched(r, stage) == rec[r].task[stage].st # "none"

\* C13: the steps of a recognition are taken in the order launch extraction,
\* launch analysis, await extraction, launch verification, await analysis,
\* await verification: extraction and analysis are launched before anything
\* is awaited, the verification task exists before analysis is awaited, and
\* analysis is awaited before verification.
C13_StepOrder ==
    \A r \in RecIds :
        /\ IsPrefix(rec[r].steps, OrchestratorOrder)
        /\ Launched(r, "latex") <=> Len(rec[r].steps) >= 1
        /\ Launched(r, "analysis") <=> Len(rec[r].steps) >= 2
        /\ Launched(r, "verification") <=> Len(rec[r].steps) >= 4
        /\ rec[r].pc = "await_latex" => Len(rec[r].steps) = 2
        /\ rec[r].pc = "await_analysis" => (Len(rec[r].steps) = 4 /\ rec[r].title = None)
        /\ rec[r].pc = "await_verification"
              => (Len(rec[r].steps) = 5 /\ rec[r].title # None
                     /\ rec[r].verification_result = None)
        /\ rec[r].pc = "done" /\ rec[r].verification_result # None => Len(rec[r].steps) = 6

\* C13 witness: extraction has been awaited, the verification request is under
\* way and the analysis request, issued before extraction finished or after,
\* is still pending.
C13_Witness ==
    /\ rec["r1"].pc = "await_analysis"
    /\ rec["r1"].steps = <<"spawn_latex", "spawn_analysis", "await_latex", "spawn_verification">>
    /\ rec["r1"].task["verification"].st = "running"
    /\ rec["r1"].task["analysis"].st = "running"


\* C14: a verification task exists, and so a verification request is issued,
\* only when the extraction stage has succeeded; its request carries the
\* image of the recognition and the verification prompt followed by exactly
\* the text extraction returned; a recognition whose extraction failed never
\* has a verification task.
C14_VerificationAfterExtraction ==
    \A r \in RecIds :
        /\ Launched(r, "verification")
           => /\ StageSucceeded(r, "latex")
              /\ stage_request(rec[r].task["verification"]) =
                    [text |-> build_verification_prompt(rec[r].entry, rec[r].config[1])
                                \o <<"<2NL>", "LaTeX", "to", "evaluate:",
                                     TaskOut(r, "latex").res.val>>,
                     data |-> <<"b64", r>>]
        /\ StageFailed(r, "latex")
           => (~Launched(r, "verification") /\ ~RequestIssued(r, "verification"))

\* C14 witness: extraction returned "a+b" and the verification request that
\* is under way ends with that text.
C14_Witness ==
    /\ RequestIssued("r1", "verification")
    /\ TaskOut("r1", "latex").res = [ok |-> TRUE, val |-> "a+b"]
    /\ LET t == stage_request(rec["r1"].task["verification"]).text
       IN t[Len(t)] = "a+b"

(***************************************************************************)
(* The history cache.                                                      *)
(***************************************************************************)
\* the calls of get_history that returned, by their place in journal
Gets == {i \in 1..Len(journal) : journal[i].op = "get"}

\* the cached time the call found is the file's time it had taken
FoundCurrent(e) == e.seen.last_mtime # None /\ e.seen.last_mtime[1] = e.mtime

\* C15: get_history reads history.json only when the file's modification
\* time differs from the cached one or nothing is cached, and a call that
\* does not read returns the cached list; of two calls of get_history with
\* no other call between them, the second reads nothing and returns what the
\* first returned.
C15_ReadOnlyOnChange ==
    \A i \in Gets :
        /\ journal[i].read <=> ~FoundCurrent(journal[i])
        /\ ~journal[i].read => journal[i].res = Ok(journal[i].seen.data)
        /\ (i - 1 \in Gets /\ journal[i - 1].res.ok)
               => ~journal[i].read /\ journal[i].res = journal[i - 1].res

\* a get that read a list of one record, and the next get, which did not read
C15_Witness ==
    \E i \in Gets :
        /\ i - 1 \in Gets
        /\ journal[i - 1].read /\ journal[i - 1].res.ok
        /\ Len(journal[i - 1].res.val) > 0
        /\ ~journal[i].read /\ journal[i].res = journal[i - 1].res

\* the mutating commands that returned success, by their place in journal
Mutations == {i \in 1..Len(journal) : journal[i].op \in HistoryOps \ {"get"} /\ journal[i].res.ok}

\* the list shows the change the mutating command e made
Includes(list, e) ==
    CASE e.op = "append" -> Len(list) > 0 /\ list[1] = FrontendItem(e.id)
      [] e.op = "delete" -> \A k \in 1..Len(list) : list[k].id # e.id
      [] e.op = "title" -> \E k \in 1..Len(list) : list[k].id = e.id /\ list[k].title = NewTitle
      [] e.op = "favorite" -> \E k \in 1..Len(list) : list[k].id = e.id /\ list[k].is_favorite

\* C16: after save_to_history, update_history_title, update_favorite_status
\* or delete_history_item returned success, the next get_history succeeds
\* and returns the list the command wrote, which includes its change,
\* whatever modification time the cache held before the command.
C16_MutationVisible ==
    \A i \in Mutations :
        i + 1 \in Gets =>
            /\ journal[i + 1].res = Ok(journal[i].written)
            /\ Includes(journal[i + 1].res.val, journal[i])

\* a renaming whose write left the file with the modification time the cache
\* already held, and the next get, which returned the cached list
C16_Witness ==
    \E i \in Mutations :
        /\ journal[i].op = "title"
        /\ journal[i].seen.last_mtime = Some(journal[i].mtime)
        /\ journal[i].seen.data # journal[i].written
        /\ i + 1 \in Gets
        /\ ~journal[i + 1].read
        /\ journal[i + 1].res = Ok(journal[i].written)

\* no call is in progress
Quiet == (\A p \in Procs : ~CmdBusy(p)) /\ (\A r \in RecIds : ~RecBusy(r))

\* no recognition has written history.json: the file is as the history
\* commands left it
OnlyCommandsWrote == \A i \in 1..Len(journal) : journal[i].op = "recognize" => ~journal[i].res.ok

\* C17: under every interleaving of concurrent get_history, save_to_history,
\* update and delete calls the cached pair is never torn: when no call is in
\* progress and the cached modification time is that of history.json, the
\* cached list is the content of history.json.
C17_CacheNeverTorn ==
    (Quiet /\ OnlyCommandsWrote /\ cache.last_mtime = modified(historyMtime))
        => cache.data = historyFile

\* the calls that returned success after putting a record with the id at the
\* head of the list: save_to_history and the recognitions
Added(id) ==
    {i \in 1..Len(journal) :
        journal[i].op \in {"append", "recognize"} /\ journal[i].id = id /\ journal[i].res.ok}

\* the calls of delete_history_item that returned success for the id
Deleted(id) == {i \in 1..Len(journal) : journal[i].op = "delete" /\ journal[i].id = id /\ journal[i].res.ok}

Stored(id) == {k \in 1..Len(historyFile) : historyFile[k].id = id}

\* C18: mutations of the history are serialized: when the concurrent calls
\* have returned, history.json reflects each of them, and no record that was
\* added with success and never deleted is missing from it.
C18_NoLostRecord ==
    Quiet => \A id \in ItemIds :
                 Deleted(id) = {} => Cardinality(Stored(id)) = Cardinality(Added(id))

\* the recognitions that returned success, by their place in journal
Recognitions == {i \in 1..Len(journal) : journal[i].op = "recognize" /\ journal[i].res.ok}

\* C19: after a recognition returned success, the next get_history returns a
\* list whose first record is the one the recognition made, whatever
\* modification time the cache holds.
C19_RecognitionVisible ==
    \A i \in Recognitions :
        (i + 1 \in Gets /\ journal[i + 1].res.ok)
            => /\ Len(journal[i + 1].res.val) > 0
               /\ journal[i + 1].res.val[1].id = journal[i].id

\* the step ends a recognition with success
RecognitionSucceeds ==
    /\ Len(journal') = Len(journal) + 1
    /\ journal'[Len(journal')].op = "recognize"
    /\ journal'[Len(journal')].res.ok

\* the record the recognition that is about to write has made
PendingItem == LET r == CHOOSE r \in RecIds : rec[r].pc = "write_history" IN rec[r].item[1]

\* the step is the write of save_to_history by caller p
AppendWrites(p) == cmd[p].op = "append" /\ cmd[p].pc = "write" /\ cmd'[p].pc = "store"

Writes(p, op) == cmd[p].op = op /\ cmd[p].pc = "write" /\ cmd'[p].pc = "store"

\* the step is the write of a title update, a favorite update or a delete
ExplicitWrite == \E p \in Procs, op \in {"title", "favorite", "delete"} : Writes(p, op)

\* every record of list is in list2, unaltered and in its order, behind at
\* most one new record
KeptBehindHead(list, list2) ==
    \E n \in {0, 1} :
        /\ Len(list2) = Len(list) + n
        /\ \A k \in 1..Len(list) : list2[k + n] = list[k]

ScoreRange == 0..100

\* C22: every confidence score carried by a confidence progress event, by a
\* value a recognition returned or by a stored history record is in 0..100.
C22_ScoreInRange ==
    /\ \A i \in 1..Len(events) :
           events[i].stage = "confidence" => events[i].confidence_score[1] \in ScoreRange
    /\ \A r \in RecIds : ReturnedOk(r) => rec[r].result[1].val.confidence_score \in ScoreRange
    /\ \A k \in 1..Len(historyFile) : historyFile[k].confidence_score \in ScoreRange

\* the scorer has returned
Scored == eval.fn = ScorerFn /\ eval.out # None

\* round(100 * matched / total) in exact arithmetic, the half away from zero
ExactPercent(matched, total) ==
    IF total = 0 THEN 100 ELSE (200 * matched + total) \div (2 * total)

\* clamp(round(0.75 * S + 0.25 * T), 0, 100) in exact arithmetic
ExactCoverageScore(cov) ==
    LET S == ExactPercent(cov.symbols_matched, cov.symbols_total)
        T == ExactPercent(cov.terms_matched, cov.terms_total)
        combined == (3 * S + T + 2) \div 4
    IN IF combined > 100 THEN 100 ELSE combined

\* C23: when coverage is present, for all counts the score is
\* clamp(round(0.75 * S + 0.25 * T), 0, 100), S and T being 100 for a total
\* of 0 and round(100 * matched / total) otherwise, whatever the status and
\* the issues.
C23_CoverageScore ==
    (Scored /\ eval.arg[1].coverage # None)
        => eval.out[1].confidence_score = ExactCoverageScore(eval.arg[1].coverage[1])

\* C24: when coverage is absent, the score is 100 for status ok whatever the
\* number of issues, 80 - min(2 * n, 20) for status warning and
\* 60 - min(5 * n, 50) for every other status, n being the number of issues;
\* it is never negative.
C24_HeuristicScore ==
    (Scored /\ eval.arg[1].coverage = None)
        => LET n == Len(eval.arg[1].issues)
               status == eval.arg[1].status
               score == eval.out[1].confidence_score
           IN /\ status = "ok" => score = 100
              /\ status = "warning" => score = 80 - (IF 2 * n < 20 THEN 2 * n ELSE 20)
              /\ status \notin {"ok", "warning"} => score = 60 - (IF 5 * n < 50 THEN 5 * n ELSE 50)
              /\ score >= 0

\* status error with 20 issues scored 10
C24_Witness ==
    /\ Scored
    /\ eval.arg[1].coverage = None
    /\ eval.arg[1].status = "error"
    /\ Len(eval.arg[1].issues) = 20
    /\ eval.out[1].confidence_score = 10

\* the lines the report is to hold for a list of issues: one for each of the
\* first ten, in their order, and the note when more than ten were given
StatedIssueLines(issues) ==
    LET n == Len(issues)
        shown == IF n < 10 THEN n ELSE 10
    IN [k \in 1..shown |-> <<"- [", issues[k].category, "] ", issues[k].message>>]
           \o (IF n > 10 THEN <<<<"zh-more-issues-omitted", n - 10>>>> ELSE <<>>)

\* the report for a Verification, the lines for the issues behind the lines
\* of intro
StatedReport(v, intro) ==
    IF v.status = "ok" /\ v.issues = <<>> THEN <<ExactMatchReport>>
    ELSE IF v.issues # <<>> THEN intro \o StatedIssueLines(v.issues)
    ELSE IF v.status = "warning" THEN <<LayoutDifferenceReport>>
    ELSE <<ContentDifferenceReport>>

\* C25 as stated: the report is the exact-match message for status ok without
\* issues; otherwise the lines of the first ten issues and the note on the
\* omitted ones, and nothing else; a generic message by status when the
\* status is not ok and there are no issues.
C25_ReportAsStated ==
    Scored => eval.out[1].verification_report = StatedReport(eval.arg[1], <<>>)

\* C25: the report is the exact-match message for status ok without issues;
\* with issues it is a fixed header line followed by the lines of the first
\* ten issues and, when more than ten were given, the note on the omitted
\* ones; a generic message by status when the status is not ok and there
\* are no issues.
C25_ReportWithHeader ==
    Scored => eval.out[1].verification_report = StatedReport(eval.arg[1], <<DifferencesHeader>>)

\* the report for 12 issues: the header, ten lines and the note on 2 more
C25_Witness ==
    /\ Scored
    /\ Len(eval.arg[1].issues) = 12
    /\ Len(eval.out[1].verification_report) = 12
    /\ eval.out[1].verification_report[2] = <<"- [", "symbol_mismatch", "] ", <<"issue", 1>>>>
    /\ eval.out[1].verification_report[12] = <<"zh-more-issues-omitted", 2>>

\* the text handed to the function whose call eval records, once it returned
Parsed(fn) == eval.fn = fn /\ eval.out # None

\* the positions the claim names, each 0 when missing: the first key, the
\* first colon after it, the first quote after the colon, and the first later
\* quote with an even number of backslashes right before it
FirstOf(S) == IF S = {} THEN 0 ELSE CHOOSE p \in S : \A q \in S : p <= q

KeyPos(t) ==
    FirstOf({p \in 1..(Len(t) - 2) : SubSeq(t, p, p + 2) = LatexKey})

ColonPos(t) ==
    IF KeyPos(t) = 0 THEN 0
    ELSE FirstOf({p \in (KeyPos(t) + 3)..Len(t) : t[p] = ":"})

OpenPos(t) ==
    IF ColonPos(t) = 0 THEN 0
    ELSE FirstOf({p \in (ColonPos(t) + 1)..Len(t) : t[p] = Quote})

BackslashesBefore(t, open, p) ==
    CHOOSE k \in 0..(p - open - 1) :
        /\ \A j \in 1..k : t[p - j] = Backslash
        /\ k = p - open - 1 \/ t[p - k - 1] # Backslash

ClosePos(t) ==
    IF OpenPos(t) = 0 THEN 0
    ELSE FirstOf({p \in (OpenPos(t) + 1)..Len(t) :
                     t[p] = Quote /\ BackslashesBefore(t, OpenPos(t), p) % 2 = 0})

StatedSpan(t) == SubSeq(t, OpenPos(t), ClosePos(t))

\* C26 as stated: whenever the key, a colon after it, an opening quote after
\* the colon and an unescaped closing quote are all there, the lenient
\* extractor returns a result, the decoded content of that span, and it
\* returns no result when one of them is missing.
C26_LenientAsStated ==
    Parsed(RelaxedFn) =>
        LET t == eval.arg[1].clean
            result == eval.out[1]
        IN IF ClosePos(t) = 0 THEN result = None
           ELSE /\ result # None
                /\ result = json_decode_string(StatedSpan(t))

\* C26 (amended): the lenient extractor returns the decoded content of the
\* span from the first quote after the first colon after the key to the first
\* following quote not preceded by an active escape, whatever follows the
\* closing quote, when that span is a valid JSON string; it returns no result
\* when the key, the colon, the opening quote or the closing quote is missing
\* and also when the span does not decode (a backslash before a character
\* that JSON does not allow it to escape).
C26_LenientExtraction ==
    Parsed(RelaxedFn) =>
        LET t == eval.arg[1].clean
            result == eval.out[1]
        IN IF ClosePos(t) = 0 THEN result = None
           ELSE result = json_decode_string(StatedSpan(t))

\* an escaped backslash followed by a quote closed the string, and the brace
\* after the closing quote was ignored
C26_Witness ==
    /\ Parsed(RelaxedFn)
    /\ eval.arg[1].clean = <<"{">> \o LatexKey \o <<":", Quote, Backslash, Backslash, Quote, "}">>
    /\ eval.out[1] = Some(<<Backslash>>)

\* the response has a text: a first candidate with a first part
HasText(body) ==
    /\ "candidates" \in DOMAIN body
    /\ body.candidates # <<>>
    /\ "parts" \in DOMAIN body.candidates[1]
    /\ body.candidates[1].parts # <<>>

\* the cleaned text of the response a stage call was given
CleanedText == clean_response(eval.arg[1].candidates[1].parts[1])

StageCalled(fn) == Parsed(fn) /\ HasText(eval.arg[1])

\* C27: in the extraction stage the latex value of the strictly parsed
\* cleaned text is the result whenever strict parsing succeeds; the lenient
\* extractor's value is the result only when strict parsing failed; when
\* both fail the result is a parse error that contains the cleaned text.  In
\* the analysis and verification stages a text that their schema refuses is
\* never rescued by the lenient extractor.
C27_StrictThenLenient ==
    /\ StageCalled(ExtractFn) =>
        LET strict == struct_field(CleanedText, "latex", "string")
            relaxed == try_relaxed_extract_latex(CleanedText)
            result == eval.out[1]
        IN /\ strict # None => result = Ok(strict[1])
           /\ strict = None /\ relaxed # None => result = Ok(relaxed[1])
           /\ strict = None /\ relaxed = None =>
                /\ ~result.ok
                /\ contains(result.err, <<"Failed", "to", "parse">>)
                /\ contains(result.err, CleanedText)
    /\ (/\ StageCalled(VerificationFn)
        /\ \/ struct_field(CleanedText, "confidence_score", "number") = None
           \/ struct_field(CleanedText, "verification_report", "string") = None)
            => ~eval.out[1].ok
    /\ (/\ StageCalled(AnalysisFn)
        /\ \/ struct_field(CleanedText, "title", "string") = None
           \/ struct_field(CleanedText, "analysis", "analysis") = None
        /\ eval.out[1].ok)
            => eval.out[1].val.analysis = EmptyAnalysis

\* strict parsing failed on a bracket after the value and the lenient
\* extractor gave the stage result
C27_Witness ==
    /\ StageCalled(ExtractFn)
    /\ CleanedText = Member("latex", Str("a")) \o <<"]">>
    /\ struct_field(CleanedText, "latex", "string") = None
    /\ eval.out[1] = Ok(<<"a">>)

\* strict parsing succeeded where the lenient extractor finds another value
C27_StrictWins ==
    /\ StageCalled(ExtractFn)
    /\ try_relaxed_extract_latex(CleanedText) = Some(<<"a">>)
    /\ eval.out[1] = Ok(<<"b">>)

\* both parsers failed
C27_BothFailed ==
    /\ StageCalled(ExtractFn)
    /\ CleanedText = <<"not", "json">>
    /\ ~eval.out[1].ok

\* the analysis stage was given the answer to the wrong stage: the quoted
\* word latex occurs in the cleaned text, the quoted word analysis does not
WrongStageAnswer == contains(CleanedText, LatexKey) /\ ~contains(CleanedText, AnalysisKey)

DefaultAnalysisResult == Ok([title |-> <<"Untitled formula">>, analysis |-> EmptyAnalysis])

FinishReason(body) ==
    IF "candidates" \in DOMAIN body /\ body.candidates # <<>>
    THEN body.candidates[1].finishReason ELSE None

\* C29: a stage call whose response has no candidate or no text part in the
\* first candidate fails with a parse error, and the error names the finish
\* reason whenever the response reports one.
C29_NoTextErrorNamesFinishReason ==
    \A fn \in {ExtractFn, AnalysisFn, VerificationFn} :
        Parsed(fn) /\ ~HasText(eval.arg[1]) =>
            /\ ~eval.out[1].ok
            /\ FinishReason(eval.arg[1]) # None =>
                   contains(eval.out[1].err, FinishReason(eval.arg[1]))

\* the part of C29 the code keeps: every response without a text is an error
C29_NoTextIsError ==
    \A fn \in {ExtractFn, AnalysisFn, VerificationFn} :
        Parsed(fn) /\ ~HasText(eval.arg[1]) => ~eval.out[1].ok

\* C30: a recognition call that has returned success has emitted exactly
\* three progress events for its id, one for latex, one for analysis and one
\* for confidence, also when its analysis or verification stage failed and
\* was replaced by the default.
C30_ThreeEvents ==
    \A r \in RecIds :
        ReturnedOk(r) =>
            /\ Len(EventsOf(r)) = 3
            /\ \A stage \in {"latex", "analysis", "confidence"} :
                   Cardinality({i \in 1..Len(EventsOf(r)) : EventsOf(r)[i].stage = stage}) = 1

\* a recognition whose analysis and verification stages both failed returned
\* success after its three events
C30_Witness ==
    /\ ReturnedOk("r1")
    /\ StageFailed("r1", "analysis")
    /\ StageFailed("r1", "verification")
    /\ StageSeq("r1") = <<"latex", "analysis", "confidence">>

\* the requests issued for a stage of the one recognition
Requests(s) == call[StageCall[s]].sent

\* C31: every recognition call returns, and at every moment it has issued at
\* most max_retries + 1 requests for each of its three stages, at most
\* 3 * (max_retries + 1) in all.
C31_ReturnsWithinBudget ==
    /\ [](/\ \A s \in Stages : Requests(s) <= max_retries + 1
          /\ Requests("latex") + Requests("analysis") + Requests("verification")
                <= 3 * (max_retries + 1))
    /\ <>(rec["r1"].pc = "done")

\* the recognition returned success after every stage had used its whole
\* budget of two retries
C31_Witness ==
    /\ ReturnedOk("r1")
    /\ max_retries = 2
    /\ \A s \in Stages : Requests(s) = 3

\* the record a recognition returned
ReturnedItem(r) == rec[r].result[1].val

\* C32: in a successful recognition the latex of the latex event and of the
\* returned record is the text the extraction stage returned, the record's
\* title and analysis are those of the analysis event, and its confidence
\* score and report are those of the confidence event.
C32_StageOutputsUnchanged ==
    \A r \in RecIds :
        ReturnedOk(r) =>
            /\ EventOf(r, "latex").latex = Some(TaskOut(r, "latex").res.val)
            /\ ReturnedItem(r).latex = TaskOut(r, "latex").res.val
            /\ Some(ReturnedItem(r).title) = EventOf(r, "analysis").title
            /\ Some(ReturnedItem(r).analysis) = EventOf(r, "analysis").analysis
            /\ Some(ReturnedItem(r).confidence_score) = EventOf(r, "confidence").confidence_score
            /\ ReturnedItem(r).verification_report = EventOf(r, "confidence").verification_report

\* a recognition whose three stages succeeded returned its record
C32_Witness ==
    /\ ReturnedOk("r1")
    /\ \A s \in Stages : StageSucceeded("r1", s)
    /\ ReturnedItem("r1").title # default_title_for_lang(rec["r1"].config[1].language)
    /\ ReturnedItem("r1").confidence_score > 0

\* the failed attempts of a call that its own loop answered with a retry: the
\* i-th attempt is retried when its error is retryable and fewer than
\* max_retries retries were made before it
OwnRetries(c) ==
    Cardinality({i \in 1..Len(call[c].outcomes) :
                    /\ i <= max_retries
                    /\ ~send_request(call[c].outcomes[i]).ok
                    /\ should_retry(send_request(call[c].outcomes[i]).err)})

\* C33: the retry budget is per call: the attempt counter of a call counts the
\* retries of that call alone, whatever a concurrent call on the same client
\* has consumed, and each call issues its own attempts + 1 requests.
C33_RetryBudgetPerCall ==
    \A c \in Calls :
        call[c].pc \notin {"off", "idle"} =>
            /\ call[c].attempts = OwnRetries(c)
            /\ call[c].sent = call[c].attempts + (IF call[c].pc = "sleeping" THEN 0 ELSE 1)

\* one call gave up after using its whole budget of two retries, and the
\* concurrent call was then still granted its second retry
C33_Witness ==
    /\ max_retries = 2
    /\ call["c1"].pc = "done" /\ ~call["c1"].result[1].ok /\ call["c1"].attempts = 2
    /\ call["c2"].pc = "sleeping" /\ call["c2"].attempts = 2

\* the step in which recognition r returns success
ReturnsOk(r) == rec[r].pc # "done" /\ rec'[r].pc = "done" /\ rec'[r].result[1].ok

PhaseFn == "retry_verification_phase"

\* what verify_latex_against_image returns: a parsed Verification or an error
StructuredResults ==
    {Ok([status |-> s, issues |-> IssuesOf(n), coverage |-> None]) :
        s \in VerificationStatuses, n \in 0..2}
    \cup {Err(SendFailedMsg), Err(<<"Failed", "to", "parse", "verification:", "not-json">>)}

\* mutant: a failed structured verification is returned as the error
phase_result_no_fallback(structured, fallback) ==
    IF structured.ok
    THEN [res |-> Ok([vr |-> compute_verification_result_from_struct(structured.val),
                      verification |-> Some(structured.val)]),
          asked |-> <<"verify_latex_against_image">>]
    ELSE [res |-> Err(structured.err), asked |-> <<"verify_latex_against_image">>]

\* the match of retry_verification_phase on the structured verification, the
\* requests made being listed in asked
phase_result(structured, fallback) ==
    IF structured.ok
    THEN [res |-> Ok([vr |-> compute_verification_result_from_struct(structured.val),
                      verification |-> Some(structured.val)]),
          asked |-> <<"verify_latex_against_image">>]
    ELSE [res |-> Ok([vr |-> IF fallback.ok THEN fallback.val ELSE FailedVerificationResult,
                      verification |-> None]),
          asked |-> <<"verify_latex_against_image", "get_verification_result_with_image">>]

\* the command: read_config, which may rewrite config.json, then the match
retry_verification_phase(writeOk) ==
    /\ eval.fn = PhaseFn
    /\ eval.out = None
    /\ LET rc == read_config(configFile, writeOk)
       IN /\ configFile' = rc.file
          /\ eval' = [eval EXCEPT !.out = Some(
                 IF rc.res.ok
                 THEN phase_result(eval.arg[1].structured, eval.arg[1].fallback)
                 ELSE [res |-> Err(rc.res.err), asked |-> <<>>])]
    /\ UNCHANGED <<retryVars, cacheVars, rec, events, historyFile, pictures>>

PhaseNext == \E writeOk \in BOOLEAN : retry_verification_phase(writeOk)

\* one retry_verification_phase on every configuration file, with every
\* outcome of its two requests
InitPhase ==
    /\ InitOrch
    /\ NoRetry
    /\ rec = Recs({})
    /\ cmd = Cmds({})
    /\ \E f \in ConfigFiles : configFile = f
    /\ \E s \in StructuredResults, f \in StageResults("verification") :
           eval = [fn |-> PhaseFn, arg |-> Some([structured |-> s, fallback |-> f]), out |-> None]

SpecPhase == InitPhase /\ [][PhaseNext]_vars

\* C35: once the configuration has been read, retry_verification_phase never
\* returns an error: it first asks for the structured verification and on
\* success returns the scorer's result with that verification; on failure it
\* asks for the score-and-report form and returns it with no structured
\* verification; when that fails too it returns score 0 with the fixed
\* "verification failed" report.
C35_PhaseRetryNeverFails ==
    (eval.fn = PhaseFn /\ eval.out # None /\ configFile.state # "unreadable") =>
        LET a == eval.arg[1]
            o == eval.out[1]
        IN /\ o.res.ok
           /\ a.structured.ok =>
                 /\ o.asked = <<"verify_latex_against_image">>
                 /\ o.res.val.vr = compute_verification_result_from_struct(a.structured.val)
                 /\ o.res.val.verification = Some(a.structured.val)
           /\ ~a.structured.ok =>
                 /\ o.asked = <<"verify_latex_against_image", "get_verification_result_with_image">>
                 /\ o.res.val.verification = None
                 /\ o.res.val.vr =
                        IF a.fallback.ok THEN a.fallback.val
                        ELSE [confidence_score |-> 0, verification_report |-> VerificationFailedReport]

\* both requests failed and the command returned the failed result
C35_Witness ==
    /\ eval.fn = PhaseFn /\ eval.out # None
    /\ configFile.state = "ok"
    /\ ~eval.arg[1].structured.ok /\ ~eval.arg[1].fallback.ok
    /\ eval.out[1].res.ok
    /\ eval.out[1].res.val.vr.confidence_score = 0

(***************************************************************************)
(* data_models.rs: Config::migrate_prompts applied to a saved              *)
(* configuration, and applied again to its result.                         *)
(***************************************************************************)
MigrateFn == "migrate_prompts"

\* the default text of an earlier prompts version
OldDefaultPrompt(stage) == <<"base", stage, "prompt", "v2">>

CurrentDefaultPrompt(stage) ==
    CASE stage = "latex" -> default_prompts_tuple.latex
      [] stage = "analysis" -> default_prompts_tuple.analysis
      [] stage = "verification" -> default_prompts_tuple.verification

\* prompts a config.json may hold: empty, blank, the user's own text, the
\* default of the earlier version and the current default
MigratablePrompts(stage) ==
    SavedPrompts(stage) \cup {OldDefaultPrompt(stage), CurrentDefaultPrompt(stage)}

MigratableConfigs ==
    { UserConfig(lp, ap, vp, <<>>, "en", ver) :
        lp \in MigratablePrompts("latex"), ap \in MigratablePrompts("analysis"),
        vp \in MigratablePrompts("verification"),
        ver \in {current_prompts_version - 1, current_prompts_version,
                 current_prompts_version + 1} }

\* config.migrate_prompts() on the configuration read
migrate_first ==
    /\ eval.fn = MigrateFn
    /\ eval.out = None
    /\ eval' = [eval EXCEPT !.out = Some(<<migrate_prompts(eval.arg[1])>>)]
    /\ UNCHANGED <<retryVars, orchVars, cacheVars>>

\* migrate_prompts() again, on the configuration the first call left
migrate_second ==
    /\ eval.fn = MigrateFn
    /\ eval.out # None
    /\ Len(eval.out[1]) = 1
    /\ eval' = [eval EXCEPT !.out = Some(Append(eval.out[1],
                                                migrate_prompts(eval.out[1][1].config)))]
    /\ UNCHANGED <<retryVars, orchVars, cacheVars>>

MigrateNext == migrate_first \/ migrate_second

InitMigrate ==
    /\ InitOrch
    /\ NoRetry
    /\ configFile = FileOf(DefaultConfig)
    /\ rec = Recs({})
    /\ cmd = Cmds({})
    /\ \E cfg \in MigratableConfigs : eval = [fn |-> MigrateFn, arg |-> Some(cfg), out |-> None]

SpecMigrate == InitMigrate /\ [][MigrateNext]_vars

\* the prompt of a stage in a configuration
PromptOf(cfg, stage) ==
    CASE stage = "latex" -> cfg.latex_prompt
      [] stage = "analysis" -> cfg.analysis_prompt
      [] stage = "verification" -> cfg.verification_prompt

\* a prompt that holds the user's own text: not blank and no default text
IsCustomPrompt(stage, p) ==
    /\ ~trim_is_empty(p)
    /\ p \notin {OldDefaultPrompt(stage), CurrentDefaultPrompt(stage)}

\* C36: prompt migration replaces only outdated or empty prompts by the
\* current defaults and never changes a prompt holding the user's custom
\* content; it returns true exactly when it changed some field, and a second
\* migration right after the first changes nothing and returns false.
C36_MigrationKeepsCustomPrompts ==
    (eval.fn = MigrateFn /\ eval.out # None) =>
        LET before == eval.arg[1]
            first == eval.out[1][1]
        IN /\ \A s \in Stages :
                 /\ IsCustomPrompt(s, PromptOf(before, s)) =>
                        PromptOf(first.config, s) = PromptOf(before, s)
                 /\ PromptOf(first.config, s) # PromptOf(before, s) =>
                        PromptOf(first.config, s) = CurrentDefaultPrompt(s)
           /\ first.changed <=> (first.config # before)
           /\ Len(eval.out[1]) = 2 =>
                 /\ ~eval.out[1][2].changed
                 /\ eval.out[1][2].config = first.config

\* the part of C36 that holds: a configuration whose version is current keeps
\* its custom prompts, a changed prompt is the current default, true is
\* returned exactly for a change, and the second migration changes nothing
C36_MigrationIdempotent ==
    (eval.fn = MigrateFn /\ eval.out # None) =>
        LET before == eval.arg[1]
            first == eval.out[1][1]
        IN /\ \A s \in Stages :
                 /\ (/\ IsCustomPrompt(s, PromptOf(before, s))
                     /\ before.prompts_version >= current_prompts_version) =>
                        PromptOf(first.config, s) = PromptOf(before, s)
                 /\ PromptOf(first.config, s) # PromptOf(before, s) =>
                        PromptOf(first.config, s) = CurrentDefaultPrompt(s)
           /\ first.changed <=> (first.config # before)
           /\ Len(eval.out[1]) = 2 =>
                 /\ ~eval.out[1][2].changed
                 /\ eval.out[1][2].config = first.config

\* the step is the first of a title update, a favorite update or a delete by
\* caller p, naming an id that no stored record has
BeginsOnUnknownId(p) ==
    /\ cmd[p].pc = "idle"
    /\ \/ /\ cmd'[p].pc = "write"
          /\ cmd'[p].op \in {"title", "favorite", "delete"}
          /\ cmd'[p].id \notin IdsOf(historyFile)
       \/ /\ Len(journal') = Len(journal) + 1
          /\ journal'[Len(journal')].by = p
          /\ journal'[Len(journal')].op \in {"title", "favorite", "delete"}
          /\ journal'[Len(journal')].id \notin IdsOf(historyFile)

\* C37: a title update, favorite update or delete that names an unknown id
\* returns the not-found error at once and leaves history.json, its
\* modification time, the cached list and the cached modification time
\* unchanged.
C37_UnknownIdChangesNothing ==
    [][\A p \in Procs :
          BeginsOnUnknownId(p) =>
              /\ Len(journal') = Len(journal) + 1
              /\ journal'[Len(journal')].res = Err(NotFoundMsg(journal'[Len(journal')].id))
              /\ UNCHANGED <<historyFile, historyMtime, cache>>]_vars

\* a delete and a title update returned not-found for an id, on a history
\* that holds a record and is cached
C37_Witness ==
    /\ \A op \in {"title", "delete"} :
           \E i \in 1..Len(journal) :
               /\ journal[i].op = op
               /\ journal[i].res = Err(NotFoundMsg(journal[i].id))
    /\ Len(historyFile) > 0
    /\ cache.data = historyFile
    /\ cache.last_mtime # None

\* C38: a recognition that returns an error has had no observable effect: no
\* progress event was emitted for it, no image file was written and the
\* stored history is as it was; and once a progress event has been emitted
\* for an id, the call for that id returns success.
C38_ErrorHasNoEffect ==
    \A r \in RecIds :
        /\ ReturnedErr(r) =>
               /\ EventsOf(r) = <<>>
               /\ image_path(r) \notin pictures
               /\ historyFile = <<>>
        /\ (rec[r].pc = "done" /\ EventsOf(r) # <<>>) => ReturnedOk(r)

\* the part of C38 that holds: an error returned before the latex event has
\* had no effect, an error returned after an event is the error of the image
\* file or of history.json, and no error leaves a record in history.json
C38_OnlyFileErrorsAfterEvents ==
    \A r \in RecIds :
        ReturnedErr(r) =>
            /\ historyFile = <<>>
            /\ EventsOf(r) = <<>> => image_path(r) \notin pictures
            /\ EventsOf(r) # <<>> =>
                   /\ rec[r].result[1].err \in FileErrors
                   /\ StageSeq(r) = <<"latex", "analysis", "confidence">>

\* the fields of a record other than its id, its timestamp and the path of
\* its image file, which is named from both
RecordBody(item) ==
    [latex |-> item.latex, title |-> item.title, analysis |-> item.analysis,
     is_favorite |-> item.is_favorite, confidence_score |-> item.confidence_score,
     model_name |-> item.model_name, verification |-> item.verification,
     verification_report |-> item.verification_report]

\* the events of a recognition without its id, its timestamp and its image
EventBodies(r) ==
    [i \in 1..Len(EventsOf(r)) |->
        [EventsOf(r)[i] EXCEPT !.id = "", !.created_at = None, !.original_image = None]]

\* two recognitions read the same configuration
SameConfig(a, b) == rec[a].config # None /\ rec[a].config = rec[b].config

\* two recognitions have returned after their stages ended alike
SameStageOutcomes(a, b) ==
    /\ rec[a].pc = "done" /\ rec[b].pc = "done"
    /\ \A s \in Stages :
           /\ rec[a].task[s].st = "done" /\ rec[b].task[s].st = "done"
           /\ TaskOut(a, s).joined = TaskOut(b, s).joined
           /\ TaskOut(a, s).res = TaskOut(b, s).res

\* the stages of two recognitions were asked with the same prompt, those
\* stages excepted that are in skip for an entry point in entries
SamePrompts(a, b, skip, entries) ==
    \A s \in Stages :
        (/\ rec[a].task[s].st # "none" /\ rec[b].task[s].st # "none"
         /\ ~(s \in skip /\ {rec[a].entry, rec[b].entry} \cap entries # {}))
            => rec[a].task[s].prompt = rec[b].task[s].prompt

\* two recognitions emitted the same events and returned the same record
SameResults(a, b) ==
    /\ EventBodies(a) = EventBodies(b)
    /\ rec[a].result[1].ok = rec[b].result[1].ok
    /\ rec[a].result[1].ok => RecordBody(ReturnedItem(a)) = RecordBody(ReturnedItem(b))

\* C39: the four entry points are the same orchestration: on the same
\* configuration they make the same three stage requests with the same
\* prompts, and with the same stage outcomes they emit the same sequence of
\* events and return records that agree on every field but the id and the
\* timestamps.
C39_SameOrchestration ==
    \A a, b \in RecIds :
        SameConfig(a, b) =>
            /\ SamePrompts(a, b, {}, {})
            /\ SameStageOutcomes(a, b) => SameResults(a, b)

\* the part of C39 that holds: the entry points agree on everything but the
\* verification prompt of recognize_from_clipboard
C39_SameButClipboardPrompt ==
    \A a, b \in RecIds :
        SameConfig(a, b) =>
            /\ SamePrompts(a, b, {"verification"}, {"clipboard"})
            /\ SameStageOutcomes(a, b) => SameResults(a, b)

(***************************************************************************)
(* llm_api.rs: the backoff delay in its own width. base_secs is a u64,     *)
(* held here as four 16-bit limbs, the lowest first.                       *)
(***************************************************************************)
BackoffFn == "backoff_delay"

\* the width of base_secs and of a limb
U64Bits == 64
LimbBits == 16

U64One == <<1, 0, 0, 0>>

\* the largest retry number of which the delay is computed
MaxAttempt == 70

\* how the crate is built: with overflow checks (debug) or without (release)
Builds == {"debug", "release"}

\* 2u64.pow(n): the power modulo 2^64, and whether it left the width
pow2_u64(n) ==
    [val |-> [k \in 1..4 |-> IF n \div LimbBits = k - 1 THEN 2 ^ (n % LimbBits) ELSE 0],
     overflow |-> n >= U64Bits]

\* base_secs = 2u64.pow(attempts), jitter_ms = (attempts as u64 * 137) % 1000
\* and their sum as a Duration of whole seconds and milliseconds: an
\* overflowing power panics in a build with overflow checks and wraps in one
\* without
backoff_delay(n, build) ==
    LET p == pow2_u64(n)
    IN IF p.overflow /\ build = "debug"
       THEN [panic |-> TRUE, secs |-> U64One, ms |-> 0, overflow |-> TRUE]
       ELSE [panic |-> FALSE, secs |-> p.val, ms |-> (n * 137) % 1000,
             overflow |-> p.overflow]

\* a < b for two u64 values
u64_less(a, b) ==
    \E k \in 1..4 : a[k] < b[k] /\ \A j \in (k + 1)..4 : a[j] = b[j]

\* Duration < Duration
delay_less(a, b) ==
    u64_less(a.secs, b.secs) \/ (a.secs = b.secs /\ a.ms < b.ms)

\* the retry branch computes the delay of retry number n
compute_backoff_delay ==
    /\ eval.fn = BackoffFn
    /\ eval.out = None
    /\ eval' = [eval EXCEPT !.out = Some(backoff_delay(eval.arg[1].n, eval.arg[1].build))]
    /\ UNCHANGED <<retryVars, orchVars, cacheVars>>

\* the delay of every retry number up to MaxAttempt, in both builds
InitBackoff ==
    /\ InitOrch
    /\ NoRetry
    /\ configFile = FileOf(DefaultConfig)
    /\ rec = Recs({})
    /\ cmd = Cmds({})
    /\ \E n \in 1..MaxAttempt, build \in Builds :
           eval = [fn |-> BackoffFn, arg |-> Some([n |-> n, build |-> build]), out |-> None]

SpecBackoff == InitBackoff /\ [][compute_backoff_delay]_vars

\* C40: for every retry number n from 1 to max_retries, whatever max_retries
\* is, computing the backoff delay does not overflow its 64-bit number of
\* seconds, and the delay of retry n is greater than the delay of retry n - 1.
C40_NoOverflowIncreasing ==
    (eval.fn = BackoffFn /\ eval.out # None) =>
        LET n == eval.arg[1].n
            d == eval.out[1]
        IN /\ ~d.overflow
           /\ ~d.panic
           /\ n > 1 => delay_less(backoff_delay(n - 1, eval.arg[1].build), d)

\* the part of C40 that holds: up to retry 63 the power fits its 64 bits and
\* the delays are strictly increasing, and for the retry numbers of the
\* other specifications the delay is the one computed there in milliseconds
C40_IncreasingBelow64 ==
    (eval.fn = BackoffFn /\ eval.out # None /\ eval.arg[1].n < 64) =>
        LET n == eval.arg[1].n
            d == eval.out[1]
        IN /\ ~d.overflow
           /\ ~d.panic
           /\ n > 1 => delay_less(backoff_delay(n - 1, eval.arg[1].build), d)
           /\ n <= MaxRetriesBound + 1 =>
                  /\ d.secs[2] = 0 /\ d.secs[3] = 0 /\ d.secs[4] = 0
                  /\ d.secs[1] * 1000 + d.ms = backoff_delay_ms(n)

====
